---- MODULE Spec2Model ----
(***************************************************************************)
(* Model of trogon's command reconstruction: the value normaliser          *)
(* (MultiValueParamData.process_cli_option), the command-data accumulator  *)
(* (UserCommandData.fill_defaults) and the CLI reconstructor               *)
(* (UserCommandData.to_cli_args / to_cli_string).                          *)
(*                                                                         *)
(* Python values are records [k, n, s, t]: k is the kind, n the number of  *)
(* an int or bool, s the characters of a str, t the items of a tuple or    *)
(* list.  A str is a sequence of one-character strings, so that len, min,  *)
(* max, startswith, lstrip, repetition, sorting and quoting are computed.  *)
(***************************************************************************)
EXTENDS Integers, Sequences, FiniteSets, TLC

VARIABLES schema, given, data, fills, ret, raw, normalised, param, schemas, walk, declared, top, controls, form, app

vars == <<schema, given, data, fills, ret, raw, normalised, param, schemas, walk, declared, top, controls, form, app>>

(***************************************************************************)
(* Bounds of the model.                                                    *)
(***************************************************************************)
\* options in one command's schema
MaxOptions == 2
\* occurrences of one repeatable option in the command data
MaxOccurrences == 2
\* nested subcommand levels below the root
MaxDepth == 1
\* largest count supplied to a counting option
MaxCount == 6
\* calls of fill_defaults on one command data
MaxFills == 2
\* elements of one tuple given to the normaliser
MaxNargs == 2
\* CommandSchema objects in one tree
MaxSchemas == 4
\* parameters declared by one command
MaxParams == 2
\* control widgets of one parameter
MaxControls == 4
\* Changed messages posted by the form
MaxPosted == 2

(***************************************************************************)
(* Python values.                                                          *)
(***************************************************************************)
PyStr(chars) == [k |-> "str", n |-> 0, s |-> chars, t |-> <<>>]
PyInt(i) == [k |-> "int", n |-> i, s |-> <<>>, t |-> <<>>]
PyBool(b) == [k |-> "bool", n |-> IF b THEN 1 ELSE 0, s |-> <<>>, t |-> <<>>]
PyNone == [k |-> "none", n |-> 0, s |-> <<>>, t |-> <<>>]
PyTuple(items) == [k |-> "tuple", n |-> 0, s |-> <<>>, t |-> items]
PyList(items) == [k |-> "list", n |-> 0, s |-> <<>>, t |-> items]

\* An instance of ValueNotSupplied: the instances carry no state.
ValueNotSupplied == [k |-> "vns", n |-> 0, s |-> <<>>, t |-> <<>>]

IsNumber(v) == v.k \in {"int", "bool"}

\* Code points of the characters the model uses (ord).
Ord(c) ==
  CASE c = " " -> 32 [] c = "\"" -> 34 [] c = "'" -> 39 [] c = "(" -> 40
    [] c = ")" -> 41 [] c = "," -> 44 [] c = "-" -> 45
    [] c = "0" -> 48 [] c = "1" -> 49 [] c = "2" -> 50 [] c = "3" -> 51
    [] c = "4" -> 52 [] c = "5" -> 53 [] c = "6" -> 54 [] c = "7" -> 55
    [] c = "8" -> 56 [] c = "9" -> 57 [] c = "<" -> 60 [] c = ">" -> 62
    [] c = "?" -> 63 [] c = "F" -> 70 [] c = "N" -> 78 [] c = "T" -> 84
    [] c = "[" -> 91 [] c = "]" -> 93
    [] c = "a" -> 97 [] c = "b" -> 98 [] c = "c" -> 99 [] c = "d" -> 100
    [] c = "e" -> 101 [] c = "g" -> 103 [] c = "l" -> 108 [] c = "n" -> 110
    [] c = "o" -> 111 [] c = "p" -> 112 [] c = "r" -> 114 [] c = "s" -> 115
    [] c = "t" -> 116 [] c = "u" -> 117 [] c = "v" -> 118 [] c = "x" -> 120
    [] c = "z" -> 122
    [] OTHER -> 1000

\* str.__lt__: lexicographic on code points.
RECURSIVE StrLess(_, _)
StrLess(a, b) ==
  IF b = <<>> THEN FALSE
  ELSE IF a = <<>> THEN TRUE
  ELSE IF Head(a) = Head(b) THEN StrLess(Tail(a), Tail(b))
  ELSE Ord(Head(a)) < Ord(Head(b))

Digit(d) ==
  CASE d = 0 -> "0" [] d = 1 -> "1" [] d = 2 -> "2" [] d = 3 -> "3"
    [] d = 4 -> "4" [] d = 5 -> "5" [] d = 6 -> "6" [] d = 7 -> "7"
    [] d = 8 -> "8" [] d = 9 -> "9"

Digits == {"0", "1", "2", "3", "4", "5", "6", "7", "8", "9"}

DigitValue(c) == CHOOSE d \in 0..9 : Digit(d) = c

\* str(int): decimal digits, "-" in front of a negative number.
RECURSIVE NatToStr(_)
NatToStr(i) ==
  IF i < 10 THEN <<Digit(i)>> ELSE NatToStr(i \div 10) \o <<Digit(i % 10)>>

IntToStr(i) == IF i < 0 THEN <<"-">> \o NatToStr(0 - i) ELSE NatToStr(i)

RECURSIVE Concat(_)
Concat(seqs) == IF seqs = <<>> THEN <<>> ELSE Head(seqs) \o Concat(Tail(seqs))

RECURSIVE JoinChars(_, _)
JoinChars(sep, pieces) ==
  IF pieces = <<>> THEN <<>>
  ELSE IF Len(pieces) = 1 THEN pieces[1]
  ELSE pieces[1] \o sep \o JoinChars(sep, Tail(pieces))

InSeq(x, sq) == \E i \in 1..Len(sq) : sq[i] = x

\* The repr of an instance of ValueNotSupplied: object.__repr__, one
\* pseudo-character here (it holds the address of the instance).
VnsRepr == <<"<ValueNotSupplied object>">>

\* str(v) and repr(v).
RECURSIVE ToStr(_), Repr(_)
ToStr(v) ==
  CASE v.k = "str" -> v.s
    [] v.k = "int" -> IntToStr(v.n)
    [] v.k = "bool" -> IF v.n = 1 THEN <<"T", "r", "u", "e">>
                       ELSE <<"F", "a", "l", "s", "e">>
    [] v.k = "none" -> <<"N", "o", "n", "e">>
    [] v.k = "vns" -> VnsRepr
    [] v.k = "tuple" ->
         <<"(">> \o JoinChars(<<",", " ">>, [i \in 1..Len(v.t) |-> Repr(v.t[i])])
           \o (IF Len(v.t) = 1 THEN <<",", ")">> ELSE <<")">>)
    [] v.k = "list" ->
         <<"[">> \o JoinChars(<<",", " ">>, [i \in 1..Len(v.t) |-> Repr(v.t[i])])
           \o <<"]">>

Repr(v) ==
  IF v.k = "str"
  THEN IF InSeq("'", v.s) /\ ~InSeq("\"", v.s)
       THEN <<"\"">> \o v.s \o <<"\"">>
       ELSE <<"'">> \o Concat([i \in 1..Len(v.s) |->
                       IF v.s[i] = "'" THEN <<"\\", "'">> ELSE <<v.s[i]>>])
              \o <<"'">>
  ELSE ToStr(v)

\* a == b
RECURSIVE PyEq(_, _)
PyEq(a, b) ==
  CASE IsNumber(a) /\ IsNumber(b) -> a.n = b.n
    [] a.k = "str" /\ b.k = "str" -> a.s = b.s
    [] a.k = "vns" \/ b.k = "vns" -> a.k = b.k
    [] a.k = "none" /\ b.k = "none" -> TRUE
    [] a.k \in {"tuple", "list"} /\ b.k = a.k ->
         /\ Len(a.t) = Len(b.t)
         /\ \A i \in 1..Len(a.t) : PyEq(a.t[i], b.t[i])
    [] OTHER -> FALSE

\* a < b: "T", "F", or "E" when Python raises TypeError.
RECURSIVE PyLess(_, _)
PyLess(a, b) ==
  CASE a.k = "vns" -> "F"
    [] b.k = "vns" -> "T"
    [] IsNumber(a) /\ IsNumber(b) -> IF a.n < b.n THEN "T" ELSE "F"
    [] a.k = "str" /\ b.k = "str" -> IF StrLess(a.s, b.s) THEN "T" ELSE "F"
    [] a.k \in {"tuple", "list"} /\ b.k = a.k ->
         LET n == IF Len(a.t) < Len(b.t) THEN Len(a.t) ELSE Len(b.t)
             diff == {i \in 1..n : ~PyEq(a.t[i], b.t[i])}
         IN IF diff = {}
            THEN (IF Len(a.t) < Len(b.t) THEN "T" ELSE "F")
            ELSE LET i == CHOOSE j \in diff : \A m \in diff : j <= m
                 IN PyLess(a.t[i], b.t[i])
    [] OTHER -> "E"

(***************************************************************************)
(* sorted(): list.sort on a short list is count_run followed by a binary   *)
(* insertion sort; the only comparison it makes is "<".  The result is     *)
(* [raised, list]; raised when a comparison made raises TypeError.         *)
(***************************************************************************)
Raised == [raised |-> TRUE, list |-> <<>>]
Returned(lst) == [raised |-> FALSE, list |-> lst]

Reverse(lst) == [i \in 1..Len(lst) |-> lst[Len(lst) + 1 - i]]

\* Length of the run that starts the list, -1 when a comparison raises.
RECURSIVE RunEnd(_, _, _)
RunEnd(lst, i, descending) ==
  IF i > Len(lst) THEN Len(lst)
  ELSE LET c == PyLess(lst[i], lst[i - 1])
       IN IF c = "E" THEN -1
          ELSE IF (c = "T") = descending THEN RunEnd(lst, i + 1, descending)
          ELSE i - 1

\* Position (0-based) at which pivot goes into the sorted prefix lst[l..r-1].
RECURSIVE BinarySearch(_, _, _, _)
BinarySearch(lst, pivot, l, r) ==
  IF l >= r THEN l
  ELSE LET p == l + ((r - l) \div 2)
           c == PyLess(pivot, lst[p + 1])
       IN IF c = "E" THEN -1
          ELSE IF c = "T" THEN BinarySearch(lst, pivot, l, p)
          ELSE BinarySearch(lst, pivot, p + 1, r)

RECURSIVE BinarySort(_, _)
BinarySort(lst, start) ==
  IF start > Len(lst) THEN Returned(lst)
  ELSE CHOOSE out \in
         {IF pos = -1 THEN Raised
          ELSE CHOOSE sorted \in
                 {BinarySort(moved, start + 1) :
                    moved \in {SubSeq(lst, 1, pos) \o <<lst[start]>>
                                 \o SubSeq(lst, pos + 1, start - 1)
                                 \o SubSeq(lst, start + 1, Len(lst))}} : TRUE :
            pos \in {BinarySearch(lst, lst[start], 0, start - 1)}} : TRUE

\* The list with its first n elements, the run, in ascending order.
RunAscending(lst, n, descending) ==
  (IF descending THEN Reverse(SubSeq(lst, 1, n)) ELSE SubSeq(lst, 1, n))
    \o SubSeq(lst, n + 1, Len(lst))

SortList(lst) ==
  IF Len(lst) < 2 THEN Returned(lst)
  ELSE CHOOSE out \in
         {IF c = "E" THEN Raised
          ELSE CHOOSE sorted \in
                 {IF n = -1 THEN Raised
                  ELSE CHOOSE done \in
                         {BinarySort(run, n + 1) :
                            run \in {RunAscending(lst, n, c = "T")}} : TRUE :
                    n \in {RunEnd(lst, 3, c = "T")}} : TRUE :
            c \in {PyLess(lst[2], lst[1])}} : TRUE

\* sorted(iterable)
Sorted(iterable) == CHOOSE out \in {SortList(lst) : lst \in {iterable}} : TRUE

(***************************************************************************)
(* int(), str methods, shlex.quote.                                        *)
(***************************************************************************)
RECURSIVE DigitsToNat(_, _)
DigitsToNat(chars, acc) ==
  IF chars = <<>> THEN acc
  ELSE DigitsToNat(Tail(chars), acc * 10 + DigitValue(Head(chars)))

AllDigits(chars) == chars # <<>> /\ \A i \in 1..Len(chars) : chars[i] \in Digits

\* int(v): [raised, n]; ValueError for a str that is no number, TypeError
\* for a value that is neither a number nor a str.
IntOf(v) ==
  CASE IsNumber(v) -> [raised |-> FALSE, n |-> v.n]
    [] v.k = "str" /\ AllDigits(v.s) ->
         [raised |-> FALSE, n |-> DigitsToNat(v.s, 0)]
    [] v.k = "str" /\ v.s # <<>> /\ Head(v.s) = "-" /\ AllDigits(Tail(v.s)) ->
         [raised |-> FALSE, n |-> 0 - DigitsToNat(Tail(v.s), 0)]
    [] OTHER -> [raised |-> TRUE, n |-> 0]

\* s.startswith(prefix)
StartsWith(chars, prefix) ==
  Len(chars) >= Len(prefix) /\ SubSeq(chars, 1, Len(prefix)) = prefix

\* s.lstrip(c)
RECURSIVE LStrip(_, _)
LStrip(chars, c) ==
  IF chars # <<>> /\ Head(chars) = c THEN LStrip(Tail(chars), c) ELSE chars

\* seq * count, for a str or a list: empty when count <= 0.
RECURSIVE Repeat(_, _)
Repeat(sq, count) == IF count <= 0 THEN <<>> ELSE sq \o Repeat(sq, count - 1)

\* The characters shlex.quote leaves alone: [A-Za-z0-9_@%+=:,./-].
SafeChars ==
  Digits \cup
  {"a", "b", "c", "d", "e", "f", "g", "h", "i", "j", "k", "l", "m", "n",
   "o", "p", "q", "r", "s", "t", "u", "v", "w", "x", "y", "z",
   "A", "B", "C", "D", "E", "F", "G", "H", "I", "J", "K", "L", "M", "N",
   "O", "P", "Q", "R", "S", "T", "U", "V", "W", "X", "Y", "Z",
   "_", "@", "%", "+", "=", ":", ",", ".", "/", "-"}

\* ShlexQuote that quotes nothing.
ShlexQuoteNothing(chars) == chars

ShlexQuote(chars) ==
  IF chars = <<>> THEN <<"'", "'">>
  ELSE IF \A i \in 1..Len(chars) : chars[i] \in SafeChars THEN chars
  ELSE <<"'">>
         \o Concat([i \in 1..Len(chars) |->
              IF chars[i] = "'" THEN <<"'", "\"", "'", "\"", "'">>
              ELSE <<chars[i]>>])
         \o <<"'">>

(***************************************************************************)
(* MultiValueParamData.  The values of a MultiValueParamData are a         *)
(* sequence of tuples, each tuple the sequence of its items.               *)
(***************************************************************************)
\* MultiValueParamData(values)
MultiValueParamData(tuples) ==
  PyList([i \in 1..Len(tuples) |-> PyTuple(tuples[i])])

\* process_cli_option that wraps every item of a list, the tuples too.
process_cli_option_wrap_all(value) ==
  CASE value.k = "none" -> <<>>
    [] value.k = "tuple" -> <<value.t>>
    [] value.k = "list" -> [i \in 1..Len(value.t) |-> <<value.t[i]>>]
    [] OTHER -> <<<<value>>>>

process_cli_option(value) ==
  CASE value.k = "none" -> <<>>
    [] value.k = "tuple" -> <<value.t>>
    [] value.k = "list" ->
         [i \in 1..Len(value.t) |->
            IF value.t[i].k = "tuple" THEN value.t[i].t ELSE <<value.t[i]>>]
    [] OTHER -> <<<<value>>>>

\* itertools.chain.from_iterable over a list of tuples
Flatten(values) == Concat(values)

(***************************************************************************)
(* UserCommandData.to_cli_args.  A call returns [raised, args]: args is    *)
(* the list of tokens (Python values), raised says the call ended in an    *)
(* exception instead.                                                      *)
(*   OptionSchema:     [name, default, multiple, multi_value, is_flag,     *)
(*                      counting, secondary_opts, nargs, required]         *)
(*   ArgumentSchema:   [name, default, multiple, multi_value, nargs,       *)
(*                      required]                                          *)
(*   CommandSchema:    [name, options, arguments, subcommands]             *)
(*   UserOptionData:   [name, value, option_schema]                        *)
(*   UserArgumentData: [name, value, argument_schema]                      *)
(*   UserCommandData:  [name, options, arguments, subcommand]; subcommand  *)
(*                     is <<>> for None and <<d>> for the command data d   *)
(***************************************************************************)
RaisedArgs == [raised |-> TRUE, args |-> <<>>]
Args(tokens) == [raised |-> FALSE, args |-> tokens]

\* list(map(str, values))
MapStr(values) == [i \in 1..Len(values) |-> ToStr(values[i])]

\* [v for v in values if v != ValueNotSupplied()]
RECURSIVE Supplied(_)
Supplied(values) ==
  IF values = <<>> THEN <<>>
  ELSE (IF PyEq(Head(values), ValueNotSupplied) THEN <<>> ELSE <<Head(values)>>)
         \o Supplied(Tail(values))

\* min(names, key=len) and max(names, key=len): the first of the shortest,
\* the first of the longest.
MinByLen(names) ==
  names[CHOOSE i \in 1..Len(names) :
          /\ \A j \in 1..Len(names) : Len(names[i].s) <= Len(names[j].s)
          /\ \A j \in 1..(i - 1) : Len(names[j].s) > Len(names[i].s)]

MaxByLen(names) ==
  names[CHOOSE i \in 1..Len(names) :
          /\ \A j \in 1..Len(names) : Len(names[i].s) >= Len(names[j].s)
          /\ \A j \in 1..(i - 1) : Len(names[j].s) < Len(names[i].s)]

\* UserOptionData.string_name
string_name(option) ==
  IF option.name.k = "str" THEN option.name ELSE option.name.t[1]

\* Iterating a value: its items, the characters of a str; "E" when the
\* value is not iterable (TypeError).
IsIterable(v) == v.k \in {"tuple", "list", "str"}
Iter(v) ==
  IF v.k = "str" THEN [i \in 1..Len(v.s) |-> PyStr(<<v.s[i]>>)] ELSE v.t

\* OptionName with the longest spelling for every option.
OptionNameLongest(option) ==
  IF option.name.k = "str" THEN option.name ELSE MaxByLen(option.name.t)

\* The spelling emitted for a single-occurrence option.
OptionName(option) ==
  IF option.name.k = "str" THEN option.name
  ELSE IF option.option_schema.counting THEN MinByLen(option.name.t)
  ELSE MaxByLen(option.name.t)

\* The tokens of a counting option: count is the first of the flattened
\* values, 1 when there is none.
CountingTokens(option_name, first) ==
  CHOOSE out \in
    {IF count.raised THEN RaisedArgs
     ELSE IF StartsWith(option_name.s, <<"-", "-">>)
     THEN Args(Repeat(<<option_name>>, count.n))
     ELSE Args(<<PyStr(<<"-">> \o Repeat(LStrip(option_name.s, "-"), count.n))>>) :
       count \in {IntOf(first)}} : TRUE

\* FlagTokens with the primary spelling for every value.
FlagTokensPrimary(option_name, value_data, secondary_opts) == <<option_name>>

\* The tokens of a flag option.
FlagTokens(option_name, value_data, secondary_opts) ==
  LET is_true_bool ==
        /\ Len(value_data) = 1
        /\ Len(value_data[1]) = 1
        /\ PyEq(value_data[1][1], PyBool(TRUE))
  IN IF is_true_bool THEN <<option_name>>
     ELSE IF secondary_opts # <<>> THEN <<MaxByLen(secondary_opts)>>
     ELSE <<>>

\* Displayed without the test for supplied values.
DisplayedUnsupplied(flattened_values, flattened_defaults) ==
  MapStr(flattened_values) # MapStr(flattened_defaults)

\* Whether a single-occurrence option is displayed: values were supplied
\* and they are not the default values.  Both lists are sorted beforehand.
Displayed(flattened_values, flattened_defaults) ==
  LET values_supplied ==
        \E i \in 1..Len(flattened_values) :
           ~PyEq(flattened_values[i], ValueNotSupplied)
      values_are_defaults == MapStr(flattened_values) = MapStr(flattened_defaults)
  IN values_supplied /\ ~values_are_defaults

\* DisplayedTokens with the sentinels of a value-bearing option left out.
DisplayedTokensSupplied(option, value_data) ==
  IF option.option_schema.is_flag
  THEN Args(FlagTokens(OptionName(option), value_data,
                       option.option_schema.secondary_opts))
  ELSE IF ~option.option_schema.counting
  THEN Args(<<OptionName(option)>> \o Supplied(Flatten(value_data)))
  ELSE CountingTokens(OptionName(option),
         IF Flatten(value_data) = <<>> THEN PyInt(1) ELSE Flatten(value_data)[1])

\* What a displayed single-occurrence option adds to args.
DisplayedTokens(option, value_data) ==
  IF option.option_schema.is_flag
  THEN Args(FlagTokens(OptionName(option), value_data,
                       option.option_schema.secondary_opts))
  ELSE IF ~option.option_schema.counting
  THEN Args(<<OptionName(option)>> \o Flatten(value_data))
  ELSE CountingTokens(OptionName(option),
         IF Flatten(value_data) = <<>> THEN PyInt(1) ELSE Flatten(value_data)[1])

\* The body of the loop over self.options for an option with multiple = False.
SingleOptionTokens(option) ==
  CHOOSE out \in
    {IF flattened_values.raised \/ flattened_defaults.raised THEN RaisedArgs
     ELSE IF ~Displayed(flattened_values.list, flattened_defaults.list)
     THEN Args(<<>>)
     ELSE DisplayedTokens(option, value_data) :
       value_data \in {process_cli_option(option.value)},
       flattened_values \in {Sorted(Flatten(process_cli_option(option.value)))},
       flattened_defaults \in {Sorted(Flatten(option.option_schema.default))}} : TRUE

\* multiples[option.string_name].append(option.value);
\* multiples_schemas[option.string_name] = option.option_schema
Gather(multiples, option) ==
  LET key == string_name(option)
      at == {i \in 1..Len(multiples) : multiples[i].key = key}
  IN IF at = {}
     THEN Append(multiples, [key |-> key, values |-> <<option.value>>,
                             schema |-> option.option_schema])
     ELSE [i \in 1..Len(multiples) |->
             IF i \in at
             THEN [key |-> key, values |-> Append(multiples[i].values, option.value),
                   schema |-> option.option_schema]
             ELSE multiples[i]]

\* Occurrence without the test for sentinels: every occurrence is emitted.
OccurrenceUnfiltered(option_name, value_data) == <<option_name>> \o value_data

\* One occurrence of a repeatable option: nothing when all of its values
\* are the sentinel.
Occurrence(option_name, value_data) ==
  IF \A i \in 1..Len(value_data) : PyEq(value_data[i], ValueNotSupplied)
  THEN <<>>
  ELSE <<option_name>> \o value_data

\* The occurrences of a repeatable option that are emitted.
Occurrences(option_name, values) ==
  Concat([i \in 1..Len(values) |-> Occurrence(option_name, Iter(values[i]))])

\* SortedStrings without the sorting.
SortedStringsAsGiven(values) ==
  [i \in 1..Len(Supplied(values)) |-> PyStr(ToStr(Supplied(values)[i]))]

\* sorted(list(map(str, [v for v in values if v != ValueNotSupplied()])))
SortedStrings(values) ==
  CHOOSE out \in
    {Sorted([i \in 1..Len(supplied) |-> PyStr(ToStr(supplied[i]))]).list :
       supplied \in {Supplied(values)}} : TRUE

\* The body of the loop over multiples.items().
MultipleTokens(entry) ==
  IF \E i \in 1..Len(entry.values) : ~IsIterable(entry.values[i]) THEN RaisedArgs
  ELSE CHOOSE out \in
    {LET values_are_defaults == supplied_values = supplied_defaults
         values_supplied ==
           \E i \in 1..Len(supplied_values) :
              ~PyEq(supplied_values[i], ValueNotSupplied)
     IN IF values_supplied /\ ~values_are_defaults
        THEN Args(Occurrences(entry.key, entry.values))
        ELSE Args(<<>>) :
       supplied_defaults \in {SortedStrings(Flatten(entry.schema.default))},
       supplied_values \in
         {SortedStrings(Concat([i \in 1..Len(entry.values) |->
                                  Iter(entry.values[i])]))}} : TRUE

\* acc, [raised, args, multiples], after the tokens r of one step.
Extend(acc, r) ==
  [acc EXCEPT !.raised = r.raised, !.args = acc.args \o r.args]

\* One iteration of the loop over self.options.
OptionStep(acc, option) ==
  IF option.option_schema.multiple
  THEN [acc EXCEPT !.multiples = Gather(acc.multiples, option)]
  ELSE CHOOSE out \in {Extend(acc, r) : r \in {SingleOptionTokens(option)}} : TRUE

\* for option in self.options: ...
RECURSIVE OptionsLoop(_, _)
OptionsLoop(options, acc) ==
  IF options = <<>> \/ acc.raised THEN acc
  ELSE CHOOSE out \in
         {OptionsLoop(Tail(options), next) :
            next \in {OptionStep(acc, Head(options))}} : TRUE

\* for option_name, values in multiples.items(): ...
RECURSIVE MultiplesLoop(_, _)
MultiplesLoop(multiples, acc) ==
  IF multiples = <<>> \/ acc.raised THEN acc
  ELSE CHOOSE out \in
         {MultiplesLoop(Tail(multiples), next) :
            next \in {Extend(acc, r) : r \in {MultipleTokens(Head(multiples))}}} : TRUE

\* The tokens of one argument: its elements that are not the sentinel.
\* ArgumentTokens with the sentinels kept.
ArgumentTokensAll(argument) ==
  IF ~IsIterable(argument.value) THEN RaisedArgs
  ELSE Args(Iter(argument.value))

ArgumentTokens(argument) ==
  IF ~IsIterable(argument.value) THEN RaisedArgs
  ELSE Args(Supplied(Iter(argument.value)))

\* for argument in self.arguments: ...
RECURSIVE ArgumentsLoop(_, _)
ArgumentsLoop(arguments, acc) ==
  IF arguments = <<>> \/ acc.raised THEN acc
  ELSE CHOOSE out \in
         {ArgumentsLoop(Tail(arguments), next) :
            next \in {Extend(acc, r) : r \in {ArgumentTokens(Head(arguments))}}} : TRUE

\* LevelTokens with the loop over the arguments before the loop over the
\* repeatable options.
LevelTokensArgumentsFirst(cmd) ==
  CHOOSE out \in
    {MultiplesLoop(a.multiples, a) :
       a \in {ArgumentsLoop(cmd.arguments, o) :
                o \in {OptionsLoop(cmd.options,
                         [raised |-> FALSE, args |-> <<PyStr(cmd.name)>>,
                          multiples |-> <<>>])}}} : TRUE

\* The three loops of _to_cli_args, in their order.
LevelTokens(cmd) ==
  CHOOSE out \in
    {ArgumentsLoop(cmd.arguments, m) :
       m \in {MultiplesLoop(o.multiples, o) :
                o \in {OptionsLoop(cmd.options,
                         [raised |-> FALSE, args |-> <<PyStr(cmd.name)>>,
                          multiples |-> <<>>])}}} : TRUE

\* args.extend(self.subcommand._to_cli_args())
WithSubcommand(level, sub) ==
  IF sub.raised THEN RaisedArgs ELSE Args(level.args \o sub.args)

RECURSIVE to_cli_args_rec(_)
to_cli_args_rec(cmd) ==
  CHOOSE out \in
    {IF level.raised THEN RaisedArgs
     ELSE IF cmd.subcommand = <<>> THEN Args(level.args)
     ELSE CHOOSE all \in
            {WithSubcommand(level, sub) :
               sub \in {to_cli_args_rec(cmd.subcommand[1])}} : TRUE :
       level \in {LevelTokens(cmd)}} : TRUE

\* RootTrim that takes two tokens away.
RootTrimTwo(cli_args, include_root_command) ==
  IF include_root_command THEN cli_args ELSE SubSeq(cli_args, 3, Len(cli_args))

\* cli_args[1:] unless include_root_command
RootTrim(cli_args, include_root_command) ==
  IF include_root_command THEN cli_args ELSE SubSeq(cli_args, 2, Len(cli_args))

to_cli_args(cmd, include_root_command) ==
  CHOOSE out \in
    {IF r.raised THEN RaisedArgs ELSE Args(RootTrim(r.args, include_root_command)) :
       r \in {to_cli_args_rec(cmd)}} : TRUE

\* The default of include_root_command, of to_cli_args and of to_cli_string.
DefaultIncludeRoot == FALSE

\* One element of text_renderables.
Placeholder == <<"?", "?", "?">>

\* Renderable without the placeholder: every token is quoted.
RenderableQuoted(arg) == ShlexQuote(ToStr(arg))

Renderable(arg) ==
  IF ~PyEq(arg, ValueNotSupplied) THEN ShlexQuote(ToStr(arg)) ELSE Placeholder

\* to_cli_string: [raised, text], text the characters of the joined Text.
to_cli_string(cmd, include_root_command) ==
  CHOOSE out \in
    {IF r.raised THEN [raised |-> TRUE, text |-> <<>>]
     ELSE [raised |-> FALSE,
           text |-> CHOOSE text \in
                      {JoinChars(<<" ">>, text_renderables) :
                         text_renderables \in
                           {[i \in 1..Len(r.args) |-> Renderable(r.args[i])]}} : TRUE] :
       r \in {to_cli_args(cmd, include_root_command)}} : TRUE

(***************************************************************************)
(* UserCommandData.fill_defaults.  Every schema default is a               *)
(* MultiValueParamData (never None), given here by its values.             *)
(***************************************************************************)
\* HasEntry that finds no entry.
HasNoEntry(entries, name) == FALSE

\* any(entry.name == name for entry in entries)
HasEntry(entries, name) == \E i \in 1..Len(entries) : PyEq(entries[i].name, name)

\* The UserOptionData appended for one option schema: one per default tuple.
DefaultOptions(option_schema) ==
  [i \in 1..Len(option_schema.default) |->
     [name |-> option_schema.name,
      value |-> PyTuple(option_schema.default[i]),
      option_schema |-> option_schema]]

\* The UserArgumentData appended for one argument schema: its value is
\* default.values, the list of the default tuples.
DefaultArgument(arg_schema) ==
  [name |-> arg_schema.name,
   value |-> PyList([i \in 1..Len(arg_schema.default) |->
                       PyTuple(arg_schema.default[i])]),
   argument_schema |-> arg_schema]

\* for option_schema in command_schema.options: ...
RECURSIVE FillOptions(_, _)
FillOptions(options, option_schemas) ==
  IF option_schemas = <<>> THEN options
  ELSE FillOptions(
         IF HasEntry(options, Head(option_schemas).name) THEN options
         ELSE options \o DefaultOptions(Head(option_schemas)),
         Tail(option_schemas))

\* for arg_schema in command_schema.arguments: ...
RECURSIVE FillArguments(_, _)
FillArguments(arguments, arg_schemas) ==
  IF arg_schemas = <<>> THEN arguments
  ELSE FillArguments(
         IF HasEntry(arguments, Head(arg_schemas).name) THEN arguments
         ELSE Append(arguments, DefaultArgument(Head(arg_schemas))),
         Tail(arg_schemas))

\* SubcommandSchema that takes the first subcommand whatever its name.
SubcommandSchemaAny(command_schema, name) ==
  IF command_schema.subcommands = <<>> THEN <<>>
  ELSE <<command_schema.subcommands[1]>>

\* next((cmd for cmd in subcommands.values() if cmd.name == name), None):
\* <<>> for None.
SubcommandSchema(command_schema, name) ==
  LET at == {i \in 1..Len(command_schema.subcommands) :
               command_schema.subcommands[i].name = name}
  IN IF at = {} THEN <<>>
     ELSE <<command_schema.subcommands[CHOOSE i \in at : \A j \in at : i <= j]>>

RECURSIVE fill_defaults(_, _)
fill_defaults(cmd, command_schema) ==
  [name |-> cmd.name,
   options |-> FillOptions(cmd.options, command_schema.options),
   arguments |-> FillArguments(cmd.arguments, command_schema.arguments),
   subcommand |->
     IF cmd.subcommand = <<>> THEN <<>>
     ELSE LET subcommand_schema ==
                SubcommandSchema(command_schema, cmd.subcommand[1].name)
          IN IF subcommand_schema = <<>> THEN cmd.subcommand
             ELSE <<fill_defaults(cmd.subcommand[1], subcommand_schema[1])>>]

(***************************************************************************)
(* The inputs: command schemas as introspection builds them, and the       *)
(* command data a caller or the form builds for them.                      *)
(***************************************************************************)
S1(a) == PyStr(<<a>>)
VNS == ValueNotSupplied

Option(key, name, default, multiple, nargs, is_flag, counting, secondary_opts) ==
  [key |-> key, name |-> name, default |-> default, multiple |-> multiple,
   multi_value |-> nargs > 1, nargs |-> nargs, is_flag |-> is_flag,
   counting |-> counting, secondary_opts |-> secondary_opts, required |-> FALSE]

Argument(key, name, default, nargs) ==
  [key |-> key, name |-> name, default |-> default, multiple |-> FALSE,
   multi_value |-> nargs > 1, nargs |-> nargs, required |-> FALSE]

\* --opt/-o: a string option, default "d"
OptStr ==
  Option("opt", PyList(<<PyStr(<<"-", "o">>), PyStr(<<"-", "-", "o", "p", "t">>)>>),
         <<<<S1("d")>>>>, FALSE, 1, FALSE, FALSE, <<>>)
\* -p/--path: a repeatable string option without default
OptPath ==
  Option("path", PyList(<<PyStr(<<"-", "p">>), PyStr(<<"-", "-", "p", "a", "t", "h">>)>>),
         <<>>, TRUE, 1, FALSE, FALSE, <<>>)
\* -a/--all with --no/--not-all: a boolean flag, default True
OptAll ==
  Option("all", PyList(<<PyStr(<<"-", "a">>), PyStr(<<"-", "-", "a", "l", "l">>)>>),
         <<<<PyBool(TRUE)>>>>, FALSE, 1, TRUE, FALSE,
         <<PyStr(<<"-", "-", "n", "o">>),
           PyStr(<<"-", "-", "n", "o", "t", "-", "a", "l", "l">>)>>)
\* --vb/-v: a counting option, default 0
OptVerbose ==
  Option("vb", PyList(<<PyStr(<<"-", "-", "v", "b">>), PyStr(<<"-", "v">>)>>),
         <<<<PyInt(0)>>>>, FALSE, 1, FALSE, TRUE, <<>>)
\* --sz: a pair of integers in one occurrence, default (10, 9)
OptSize ==
  Option("sz", PyList(<<PyStr(<<"-", "-", "s", "z">>)>>),
         <<<<PyInt(10), PyInt(9)>>>>, FALSE, 2, FALSE, FALSE, <<>>)
\* --pt: a repeatable pair of strings, default one pair ("a", "b")
OptPoint ==
  Option("pt", PyList(<<PyStr(<<"-", "-", "p", "t">>)>>),
         <<<<S1("a"), S1("b")>>>>, TRUE, 2, FALSE, FALSE, <<>>)
\* --n: an integer option whose name is one string, default 7
OptNumber ==
  Option("n", PyStr(<<"-", "-", "n">>), <<<<PyInt(7)>>>>, FALSE, 1, FALSE, FALSE, <<>>)
\* --on with --off: a boolean flag, default False
OptOn ==
  Option("on", PyList(<<PyStr(<<"-", "-", "o", "n">>)>>),
         <<<<PyBool(FALSE)>>>>, FALSE, 1, TRUE, FALSE,
         <<PyStr(<<"-", "-", "o", "f", "f">>)>>)
\* --dry: a boolean flag without a negative spelling, default True
OptDry ==
  Option("dry", PyList(<<PyStr(<<"-", "-", "d", "r", "y">>)>>),
         <<<<PyBool(TRUE)>>>>, FALSE, 1, TRUE, FALSE, <<>>)
\* --qq: a counting option with a long spelling only, default 0
OptQuiet ==
  Option("qq", PyList(<<PyStr(<<"-", "-", "q", "q">>)>>),
         <<<<PyInt(0)>>>>, FALSE, 1, FALSE, TRUE, <<>>)

OptionPool ==
  <<OptStr, OptPath, OptAll, OptVerbose, OptSize, OptPoint, OptNumber, OptOn,
    OptDry, OptQuiet>>

\* arg1: an integer argument, default 5
ArgOne == Argument("arg1", PyStr(<<"a", "r", "g", "1">>), <<<<PyInt(5)>>>>, 1)
\* xy: an argument of two strings, no default
ArgPair == Argument("xy", PyStr(<<"x", "y">>), <<>>, 2)

\* --so: the boolean option (not a flag) of a subcommand, default False
OptSub ==
  Option("so", PyStr(<<"-", "-", "s", "o">>), <<<<PyBool(FALSE)>>>>,
         FALSE, 1, FALSE, FALSE, <<>>)

SubName == <<"s", "u", "b">>
OtherName == <<"z", "z">>
RootName == <<"t", "e", "s", "t">>

\* The schema of the subcommand at depth d (the root is at depth 0).
RECURSIVE SubSchema(_)
SubSchema(d) ==
  [name |-> SubName, options |-> <<OptSub>>, arguments |-> <<>>,
   subcommands |-> IF d < MaxDepth THEN <<SubSchema(d + 1)>> ELSE <<>>]

\* The subsequences of sq with at most n elements.
RECURSIVE SubSeqs(_, _)
SubSeqs(sq, n) ==
  IF sq = <<>> \/ n = 0 THEN {<<>>}
  ELSE SubSeqs(Tail(sq), n)
         \cup {<<Head(sq)>> \o rest : rest \in SubSeqs(Tail(sq), n - 1)}

\* The sequences over S of length 1..n.
RECURSIVE SeqsUpTo(_, _)
SeqsUpTo(S, n) ==
  IF n = 0 THEN {}
  ELSE {<<x>> : x \in S}
         \cup {Append(sq, x) : sq \in SeqsUpTo(S, n - 1), x \in S}

Schemas ==
  {[name |-> RootName, options |-> opts, arguments |-> <<ArgOne, ArgPair>>,
    subcommands |-> IF MaxDepth > 0 THEN <<SubSchema(1)>> ELSE <<>>] :
     opts \in SubSeqs(OptionPool, MaxOptions)}

T1(a) == PyTuple(<<a>>)
T2(a, b) == PyTuple(<<a, b>>)
Ten == PyStr(<<"1", "0">>)

\* The values a user can give one option: each a list of occurrences (one
\* UserOptionData per occurrence).  A command with a single option is given
\* all of them, a command with several the first ones only.
OccurrenceValues(key) ==
  CASE key = "opt" -> {T1(S1("a")), T1(S1("d")), T1(VNS), S1("a"), T1(PyStr(<<>>))}
    [] key = "path" -> {T1(S1("a")), T1(S1("b")), T1(VNS)}
    [] key = "all" -> {T1(PyBool(FALSE)), T1(PyBool(TRUE))}
    [] key = "vb" -> {T1(PyInt(i)) : i \in 1..MaxCount}
                       \cup {T1(S1("2")), T1(PyInt(0))}
    [] key = "sz" -> {T2(S1("9"), S1("9")), T2(Ten, S1("9")), T2(S1("9"), Ten),
                      T2(S1("9"), VNS), T2(VNS, S1("9")), T2(VNS, VNS),
                      T2(PyInt(10), PyInt(9))}
    [] key = "pt" -> {T2(S1("a"), VNS), T2(S1("b"), VNS), T2(S1("a"), S1("b")),
                      T2(S1("b"), S1("a")), T2(VNS, VNS)}
    [] key = "n" -> {T1(S1("8")), T1(S1("7")), T1(PyInt(7)), T1(VNS)}
    [] key = "on" -> {T1(PyBool(TRUE)), T1(PyBool(FALSE))}
    [] key = "dry" -> {T1(PyBool(FALSE)), T1(PyBool(TRUE))}
    [] key = "qq" -> {T1(PyInt(i)) : i \in 0..MaxCount}
    [] key = "so" -> {T1(PyBool(TRUE))}

FirstOccurrence(key) ==
  CASE key = "opt" -> T1(S1("a"))
    [] key = "path" -> T1(S1("a"))
    [] key = "all" -> T1(PyBool(FALSE))
    [] key = "vb" -> T1(PyInt(2))
    [] key = "sz" -> T2(S1("9"), S1("9"))
    [] key = "pt" -> T2(S1("a"), VNS)
    [] key = "n" -> T1(S1("8"))
    [] key = "on" -> T1(PyBool(TRUE))
    [] key = "dry" -> T1(PyBool(FALSE))
    [] key = "qq" -> T1(PyInt(2))
    [] key = "so" -> T1(PyBool(TRUE))

Inputs(option_schema, all) ==
  {<<>>} \cup
  (IF ~all THEN {<<FirstOccurrence(option_schema.key)>>}
   ELSE IF option_schema.multiple
   THEN SeqsUpTo(OccurrenceValues(option_schema.key), MaxOccurrences)
   ELSE {<<v>> : v \in OccurrenceValues(option_schema.key)})

UserOptions(option_schema, values) ==
  [i \in 1..Len(values) |->
     [name |-> option_schema.name, value |-> values[i],
      option_schema |-> option_schema]]

\* The option data of the form: the occurrences of each option, in schema order.
RECURSIVE OptionDatas(_, _)
OptionDatas(option_schemas, all) ==
  IF option_schemas = <<>> THEN {<<>>}
  ELSE {UserOptions(Head(option_schemas), values) \o rest :
          values \in Inputs(Head(option_schemas), all),
          rest \in OptionDatas(Tail(option_schemas), all)}

UserArgument(arg_schema, value) ==
  [name |-> arg_schema.name, value |-> value, argument_schema |-> arg_schema]

ArgSeven == <<UserArgument(ArgOne, T1(S1("7")))>>

\* arg1 with the text of its default
ArgFive == <<UserArgument(ArgOne, T1(S1("5")))>>

ArgumentDatas ==
  {<<>>,
   ArgSeven,
   ArgFive,
   <<UserArgument(ArgOne, T1(VNS)), UserArgument(ArgPair, T2(S1("x"), VNS))>>,
   <<UserArgument(ArgOne, T1(PyStr(<<"a", " ", "b">>))),
     UserArgument(ArgPair, T2(PyStr(<<"i", "t", "'", "s">>), PyStr(<<"?", "?", "?">>)))>>}

SubCommand(name, options, subcommand) ==
  [name |-> name, options |-> options, arguments |-> <<>>, subcommand |-> subcommand]

\* The chains of command data from depth d on: a subcommand named as in the
\* schema, with or without its option, or one with a name the schema does
\* not have.
RECURSIVE SubDatas(_)
SubDatas(d) ==
  IF d > MaxDepth THEN {}
  ELSE {<<SubCommand(OtherName, <<>>, <<>>)>>}
         \cup {<<SubCommand(SubName, opts, sub)>> :
                 opts \in OptionDatas(<<OptSub>>, FALSE),
                 sub \in {<<>>} \cup SubDatas(d + 1)}

\* The chain of MaxDepth subcommands, each with its option set.
RECURSIVE DeepSub(_)
DeepSub(d) ==
  IF d > MaxDepth THEN <<>>
  ELSE <<SubCommand(SubName, UserOptions(OptSub, <<T1(PyBool(TRUE))>>),
                    DeepSub(d + 1))>>

\* What goes with the options of the root command: its arguments and its
\* subcommand chain.
Rest(arguments, subcommand) == [arguments |-> arguments, subcommand |-> subcommand]

\* Nothing, and an argument with the chain of subcommands.
PlainRests == {Rest(<<>>, <<>>), Rest(ArgSeven, DeepSub(1))}

\* All the arguments, and all the subcommand chains.
Rests ==
  {Rest(args, <<>>) : args \in ArgumentDatas}
    \cup {Rest(ArgSeven, sub) : sub \in SubDatas(1)}

CommandData(command_schema, opts, rest) ==
  [name |-> command_schema.name, options |-> opts, arguments |-> rest.arguments,
   subcommand |-> rest.subcommand]

\* Command data built by hand, the occurrences of two repeatable options
\* interleaved: -p a, --pt a <not supplied>, -p b.
Interleaved(command_schema) ==
  IF InSeq(OptPath, command_schema.options) /\ InSeq(OptPoint, command_schema.options)
  THEN {[name |-> command_schema.name,
         options |-> UserOptions(OptPath, <<T1(S1("a"))>>)
                       \o UserOptions(OptPoint, <<T2(S1("a"), VNS)>>)
                       \o UserOptions(OptPath, <<T1(S1("b"))>>),
         arguments |-> ArgSeven, subcommand |-> <<>>]}
  ELSE {}

\* The command data of a schema: for a command with at most one option,
\* every value of the option with the plain rests and the first value with
\* every rest; for a command with several options, the first value of each
\* with an argument and the chain of subcommands; and the empty command data.
CommandDatas(command_schema) ==
  (IF Len(command_schema.options) <= 1
   THEN {CommandData(command_schema, opts, rest) :
           opts \in OptionDatas(command_schema.options, TRUE), rest \in PlainRests}
          \cup {CommandData(command_schema, opts, rest) :
                  opts \in OptionDatas(command_schema.options, FALSE), rest \in Rests}
   ELSE {CommandData(command_schema, opts, Rest(ArgSeven, DeepSub(1))) :
           opts \in OptionDatas(command_schema.options, FALSE)})
    \cup {CommandData(command_schema, <<>>, Rest(<<>>, <<>>))}
    \cup Interleaved(command_schema)

(***************************************************************************)
(* The state machine: a command schema and the command data built for it,  *)
(* on which fill_defaults, to_cli_args and to_cli_string are called.       *)
(*   given: the command data as it was constructed                         *)
(*   data:  the command data now                                           *)
(*   fills: the calls of fill_defaults on the data so far                  *)
(*   ret:   the last call and what it returned; explicit says whether the  *)
(*          call passed include_root_command or left it to its default     *)
(*   raw, normalised: the value given to process_cli_option and the        *)
(*          MultiValueParamData it returned, None before the call          *)
(*   param: an ArgumentSchema or OptionSchema of trogon.schemas, as given   *)
(*          to its constructor and as __post_init__ leaves it              *)
(*   schemas: the CommandSchema objects of trogon.schemas, an object being  *)
(*          its place in the sequence; parent is a place, 0 for None       *)
(*   walk:  the call of path_from_root in progress or returned             *)
(*   controls: the ParameterControls of one parameter: its schema, its     *)
(*          control widgets in DOM order, and what get_values returned     *)
(*   form:  the CommandForm: the selected command, the UserCommandData     *)
(*          objects built so far, and the Changed messages posted          *)
(*   app:   the Trogon app and its CommandBuilder screen: the stage of     *)
(*          run, command_data, post_run_command with its redacted line,    *)
(*          execute_on_exit, the Changed messages waiting at the screen    *)
(*          and at the app, and what was executed                          *)
(*   declared: the application as click or argparse declares it, and the  *)
(*          adapter that reads it                                          *)
(*   top:   the mapping from command names to schemas that an adapter or   *)
(*          from_schemas hands to Trogon, or the exception raised          *)
(***************************************************************************)
\* No parameter schema under construction.
NoParam ==
  [stage |-> "none", default |-> [wrapped |-> FALSE, value |-> PyNone],
   type |-> [kind |-> "none", items |-> <<>>, kwargs |-> <<>>], choices |-> PyNone,
   multiple |-> FALSE, multi_value |-> FALSE, nargs |-> 1]

\* No call of path_from_root.
NoWalk == [stage |-> "idle", self |-> 0, node |-> 0, path |-> <<>>, result |-> <<>>]

\* No application declared.
NoDeclared == [adapter |-> "none", app |-> <<>>, cmd_ignorelist |-> <<>>]

\* No mapping built.
NoTop == [stage |-> "idle", data |-> <<>>]

\* No ParameterControls mounted.
NoControls ==
  [schema |-> [type |-> [kind |-> "none", arity |-> 0], nargs |-> 1, multiple |-> FALSE,
               default |-> <<>>],
   widgets |-> <<>>,
   got |-> [stage |-> "idle", values |-> <<>>]]

\* No CommandForm mounted.
NoForm == [command_schema |-> 0, objects |-> <<>>, posted |-> <<>>]

\* No application running.  command_data is the screen's, None until
\* reported; asked tells who set execute_on_exit, asked_with what Close &
\* Run found.
NoApp ==
  [stage |-> "none",
   command_data |-> [name |-> <<>>, options |-> <<>>, arguments |-> <<>>,
                     subcommand |-> <<>>],
   reported |-> FALSE,
   post_run_command |-> <<>>,
   post_run_command_redacted |-> <<>>,
   execute_on_exit |-> FALSE,
   asked |-> "no",
   asked_with |-> [command_data |-> [name |-> <<>>, options |-> <<>>, arguments |-> <<>>,
                                     subcommand |-> <<>>],
                   post_run_command |-> <<>>],
   posts |-> 0,
   screen_queue |-> <<>>,
   app_queue |-> <<>>,
   executed |-> <<>>]

\* The variables of the reconstruction and of the normaliser.
reconstruction == <<schema, given, data, fills, ret, raw, normalised>>

\* No command data: nothing is reconstructed.
ReconstructionIdle ==
  /\ schema = [name |-> <<"t", "e", "s", "t">>, options |-> <<>>, arguments |-> <<>>,
               subcommands |-> <<>>]
  /\ given = [name |-> schema.name, options |-> <<>>, arguments |-> <<>>,
              subcommand |-> <<>>]
  /\ data = given
  /\ fills = 0
  /\ ret = [op |-> "none", explicit |-> FALSE, include_root |-> FALSE,
            raised |-> FALSE, args |-> <<>>, text |-> <<>>]
  /\ raw = PyNone
  /\ normalised = PyNone

NoCall ==
  [op |-> "none", explicit |-> FALSE, include_root |-> FALSE, raised |-> FALSE,
   args |-> <<>>, text |-> <<>>]

Init ==
  /\ app = NoApp
  /\ form = NoForm
  /\ controls = NoControls
  /\ top = NoTop
  /\ declared = NoDeclared
  /\ walk = NoWalk
  /\ schemas = <<>>
  /\ param = NoParam
  /\ schema \in Schemas
  /\ given \in CommandDatas(schema)
  /\ data = given
  /\ fills = 0
  /\ ret = NoCall
  /\ raw = PyNone
  /\ normalised = PyNone

\* The objects a call reaches: the command data it is called on and the
\* schema that the command data refers to.
Objects(self, command_schema) == [self |-> self, command_schema |-> command_schema]

\* A reconstruction that takes the arguments out of the command data as it
\* emits them.
objects_after_reconstruction_consuming(self, command_schema) ==
  Objects([self EXCEPT !.arguments = <<>>], command_schema)

\* The objects after to_cli_args or to_cli_string: _to_cli_args appends to
\* its locals args, multiples and multiples_schemas and assigns to no
\* attribute, to_cli_string to its local text_renderables.
objects_after_reconstruction(self, command_schema) == Objects(self, command_schema)

\* The objects after fill_defaults: it appends to self.options and
\* self.arguments, along the chain of subcommands, and to nothing else.
objects_after_fill_defaults(self, command_schema) ==
  Objects(fill_defaults(self, command_schema), command_schema)

\* data.fill_defaults(schema)
FillDefaults ==
  /\ fills < MaxFills
  /\ \E after \in {objects_after_fill_defaults(data, schema)} :
       data' = after.self /\ schema' = after.command_schema
  /\ fills' = fills + 1
  /\ ret' = [NoCall EXCEPT !.op = "fill_defaults"]
  /\ UNCHANGED <<app, form, controls, top, declared, walk, schemas, param, given, raw, normalised>>

\* The calls of to_cli_args and to_cli_string: without the flag, and with
\* either value of it.
Calls ==
  {[explicit |-> FALSE, include_root |-> DefaultIncludeRoot],
   [explicit |-> TRUE, include_root |-> TRUE],
   [explicit |-> TRUE, include_root |-> FALSE]}

\* data.to_cli_args() and data.to_cli_args(include_root_command)
ToCliArgs ==
  \E call \in Calls :
    \E r \in {to_cli_args(data, call.include_root)} :
       /\ ret' = [NoCall EXCEPT !.op = "to_cli_args",
                                !.explicit = call.explicit,
                                !.include_root = call.include_root,
                                !.raised = r.raised, !.args = r.args]
       /\ \E after \in {objects_after_reconstruction(data, schema)} :
            data' = after.self /\ schema' = after.command_schema
       /\ UNCHANGED <<app, form, controls, top, declared, walk, schemas, param, given, fills, raw, normalised>>

\* data.to_cli_string() and data.to_cli_string(include_root_command)
ToCliString ==
  \E call \in Calls :
    \E r \in {to_cli_string(data, call.include_root)} :
       /\ ret' = [NoCall EXCEPT !.op = "to_cli_string",
                                !.explicit = call.explicit,
                                !.include_root = call.include_root,
                                !.raised = r.raised, !.text = r.text]
       /\ \E after \in {objects_after_reconstruction(data, schema)} :
            data' = after.self /\ schema' = after.command_schema
       /\ UNCHANGED <<app, form, controls, top, declared, walk, schemas, param, given, fills, raw, normalised>>

Next == FillDefaults \/ ToCliArgs \/ ToCliString

Spec == Init /\ [][Next]_vars

\* The commands with at most one option at the root: every value of the
\* option, every argument list and every chain of subcommands.
OneOptionInit ==
  /\ Init
  /\ Len(schema.options) <= 1

OneOptionSpec == OneOptionInit /\ [][Next]_vars

(***************************************************************************)
(* Command data at the edges of what a schema allows: tuples of mixed      *)
(* kinds, counts that are no sensible number, required parameters without  *)
(* a value.                                                                *)
(***************************************************************************)
\* --mx: a (string, integer) pair in one occurrence, default ("a", 1)
OptMixed ==
  Option("mx", PyList(<<PyStr(<<"-", "-", "m", "x">>)>>),
         <<<<S1("a"), PyInt(1)>>>>, FALSE, 2, FALSE, FALSE, <<>>)
\* --sb: a (string, boolean) pair in one occurrence, no default
OptStrBool ==
  Option("sb", PyList(<<PyStr(<<"-", "-", "s", "b">>)>>),
         <<>>, FALSE, 2, FALSE, FALSE, <<>>)
\* -r/--req: a required string option
OptRequired ==
  [Option("req", PyList(<<PyStr(<<"-", "r">>), PyStr(<<"-", "-", "r", "e", "q">>)>>),
          <<>>, FALSE, 1, FALSE, FALSE, <<>>) EXCEPT !.required = TRUE]
\* --r2: a required pair of strings
OptRequiredPair ==
  [Option("r2", PyList(<<PyStr(<<"-", "-", "r", "2">>)>>),
          <<>>, FALSE, 2, FALSE, FALSE, <<>>) EXCEPT !.required = TRUE]
\* --rm: a required repeatable string option
OptRequiredMany ==
  [Option("rm", PyList(<<PyStr(<<"-", "-", "r", "m">>)>>),
          <<>>, TRUE, 1, FALSE, FALSE, <<>>) EXCEPT !.required = TRUE]
\* need: a required string argument
ArgRequired ==
  [Argument("need", PyStr(<<"n", "e", "e", "d">>), <<>>, 1) EXCEPT !.required = TRUE]

EdgePool ==
  {OptMixed, OptStrBool, OptVerbose, OptQuiet, OptRequired, OptRequiredPair,
   OptRequiredMany}

Abc == PyStr(<<"a", "b", "c">>)

\* The counts given to a counting option: texts that are no number, numbers
\* below 1 and above MaxCount, and 1.
EdgeCounts ==
  {T1(Abc), T1(PyStr(<<>>)), T1(PyInt(0 - 1)), T1(PyStr(<<"-", "1">>)),
   T1(PyInt(MaxCount + 1)), T1(PyInt(0)), T1(PyInt(1)), T1(S1("1"))}

\* The occurrences given to an option of EdgePool.
EdgeValues(key) ==
  CASE key = "mx" -> {<<T2(S1("a"), S1("1"))>>, <<T2(S1("x"), S1("2"))>>,
                      <<T2(S1("x"), VNS)>>, <<T2(VNS, VNS)>>}
    [] key = "sb" -> {<<T2(S1("a"), PyBool(TRUE))>>, <<T2(S1("a"), PyBool(FALSE))>>,
                      <<T2(VNS, PyBool(TRUE))>>, <<T2(VNS, VNS)>>}
    [] key \in {"vb", "qq"} -> {<<v>> : v \in EdgeCounts}
    [] key = "req" -> {<<T1(VNS)>>, <<T1(S1("a"))>>}
    [] key = "r2" -> {<<T2(VNS, VNS)>>, <<T2(S1("a"), VNS)>>, <<T2(S1("a"), S1("b"))>>}
    [] key = "rm" -> {<<T1(VNS)>>, <<T1(VNS), T1(VNS)>>, <<T1(S1("a")), T1(VNS)>>}

EdgeArguments ==
  {<<>>, <<UserArgument(ArgRequired, T1(VNS))>>,
   <<UserArgument(ArgRequired, T1(S1("x")))>>}

EdgeSchemas ==
  {[name |-> RootName, options |-> <<option_schema>>, arguments |-> <<ArgRequired>>,
    subcommands |-> <<>>] : option_schema \in EdgePool}

EdgeCommandDatas(command_schema) ==
  {CommandData(command_schema, UserOptions(command_schema.options[1], occurrences),
               Rest(arguments, <<>>)) :
     occurrences \in {<<>>} \cup EdgeValues(command_schema.options[1].key),
     arguments \in EdgeArguments}

EdgeInit ==
  /\ app = NoApp
  /\ form = NoForm
  /\ controls = NoControls
  /\ top = NoTop
  /\ declared = NoDeclared
  /\ walk = NoWalk
  /\ schemas = <<>>
  /\ param = NoParam
  /\ schema \in EdgeSchemas
  /\ given \in EdgeCommandDatas(schema)
  /\ data = given
  /\ fills = 0
  /\ ret = NoCall
  /\ raw = PyNone
  /\ normalised = PyNone

EdgeSpec == EdgeInit /\ [][Next]_vars

(***************************************************************************)
(* The construction of a parameter schema of trogon.schemas: the fields    *)
(* given to the dataclass constructor, then __post_init__.                 *)
(***************************************************************************)
\* The elements of a type list and the arguments of a functools.partial:
\* a type, a ChoiceSchema, or a value that is no type.
AType(name) == [kind |-> "type", name |-> name, choices |-> <<>>]
AValue(name) == [kind |-> "value", name |-> name, choices |-> <<>>]
ChoiceSchema(choices) == [kind |-> "ChoiceSchema", name |-> "choice", choices |-> choices]

\* The values of the field type: None, one type, a functools.partial with
\* positional and keyword arguments, a sequence of types.
TypeNone == [kind |-> "none", items |-> <<>>, kwargs |-> <<>>]
TypeOne(name) == [kind |-> "type", items |-> <<AType(name)>>, kwargs |-> <<>>]
TypePartial(args, kwargs) == [kind |-> "partial", items |-> args, kwargs |-> kwargs]
TypeList(items) == [kind |-> "list", items |-> items, kwargs |-> <<>>]

default_type == TypeList(<<AType("str")>>)

\* The first type among the elements, <<>> when there is none.
FirstType(elements) ==
  LET at == {i \in 1..Len(elements) : elements[i].kind = "type"}
  IN IF at = {} THEN <<>> ELSE <<elements[CHOOSE i \in at : \A j \in at : i <= j]>>

\* ArgumentSchema.__post_init__, the part on self.type and, for a single
\* ChoiceSchema, on self.choices: [type, choices]
PostInitType(type, choices) ==
  CASE type.kind = "none" \/ (type.kind = "list" /\ type.items = <<>>) ->
         [type |-> default_type, choices |-> choices]
    [] type.kind = "partial" ->
         [type |-> IF FirstType(type.items) # <<>> THEN TypeList(FirstType(type.items))
                   ELSE IF FirstType(type.kwargs) # <<>>
                   THEN TypeList(FirstType(type.kwargs))
                   ELSE default_type,
          choices |-> choices]
    [] type.kind = "type" -> [type |-> TypeList(type.items), choices |-> choices]
    [] type.kind = "list" /\ Len(type.items) = 1
         /\ type.items[1].kind = "ChoiceSchema" ->
         [type |-> default_type, choices |-> PyList(type.items[1].choices)]
    [] OTHER -> [type |-> type, choices |-> choices]

\* if self.choices: self.choices = [str(x) for x in self.choices]
PostInitChoices(choices) ==
  IF choices.k = "list" /\ choices.t # <<>>
  THEN PyList([i \in 1..Len(choices.t) |-> PyStr(ToStr(choices.t[i]))])
  ELSE choices

\* __post_init__ that leaves multiple as it was given.
post_init_multiple_as_given(self) ==
  [self EXCEPT
     !.stage = "constructed",
     !.default = IF self.default.wrapped THEN self.default
                 ELSE [wrapped |-> TRUE,
                       value |-> MultiValueParamData(process_cli_option(self.default.value))],
     !.type = PostInitType(self.type, self.choices).type,
     !.choices = PostInitChoices(PostInitType(self.type, self.choices).choices)]

\* ArgumentSchema.__post_init__ (OptionSchema inherits it)
post_init(self) ==
  [self EXCEPT
     !.stage = "constructed",
     !.default = IF self.default.wrapped THEN self.default
                 ELSE [wrapped |-> TRUE,
                       value |-> MultiValueParamData(process_cli_option(self.default.value))],
     !.type = PostInitType(self.type, self.choices).type,
     !.choices = PostInitChoices(PostInitType(self.type, self.choices).choices),
     !.multiple = IF self.multi_value THEN TRUE ELSE self.multiple]

\* The values given for default: raw values and a MultiValueParamData.
GivenDefaults ==
  {[wrapped |-> FALSE, value |-> v] : v \in {PyNone, S1("d"), T2(PyInt(1), PyInt(2))}}
    \cup {[wrapped |-> TRUE, value |-> PyList(<<T1(S1("d"))>>)]}

GivenTypes ==
  {TypeNone, TypeOne("int"), TypeList(<<>>), TypeList(<<AType("str"), AType("int")>>),
   TypeList(<<ChoiceSchema(<<S1("a"), S1("b")>>)>>),
   TypePartial(<<AValue("x"), AType("int")>>, <<AType("float")>>),
   TypePartial(<<AValue("x")>>, <<AValue("y"), AType("float")>>),
   TypePartial(<<>>, <<>>)}

GivenChoices == {PyNone, PyList(<<>>), PyList(<<PyInt(1), S1("a")>>)}

\* The values given for nargs: -1 for any number, and 1..MaxNargs.
GivenNargs == {0 - 1} \cup (1..MaxNargs)

ParamInit ==
  /\ app = NoApp
  /\ form = NoForm
  /\ controls = NoControls
  /\ top = NoTop
  /\ declared = NoDeclared
  /\ walk = NoWalk
  /\ schemas = <<>>
  /\ param \in {[stage |-> "given", default |-> d, type |-> t, choices |-> c,
                  multiple |-> m, multi_value |-> mv, nargs |-> n] :
                   d \in GivenDefaults, t \in GivenTypes, c \in GivenChoices,
                   m \in BOOLEAN, mv \in BOOLEAN, n \in GivenNargs}
  /\ ReconstructionIdle

\* The end of the dataclass constructor.
PostInit ==
  /\ param.stage = "given"
  /\ param' = post_init(param)
  /\ UNCHANGED <<app, form, controls, top, declared, reconstruction, schemas, walk>>

ParamNext == PostInit

ParamSpec == ParamInit /\ [][ParamNext]_vars

(***************************************************************************)
(* CommandSchema.path_from_root on trees of command schemas.  The loop     *)
(* takes one step for every parent link.                                   *)
(***************************************************************************)
\* CommandSchema(name, options, arguments, subcommands, parent): subcommands
\* is the dict, its items in insertion order.
CommandSchema(name, options, arguments, subcommands, parent) ==
  [name |-> name, options |-> options, arguments |-> arguments,
   subcommands |-> subcommands, parent |-> parent]

\* The names of the schemas of a tree, by place.
NameAt(i) == <<"c", Digit(i)>>

\* The sequences of n parents: the parent of a schema is None or a schema
\* that comes before it, so the links are acyclic.
RECURSIVE ParentLinks(_)
ParentLinks(n) ==
  IF n = 0 THEN {<<>>}
  ELSE {Append(links, up) : links \in ParentLinks(n - 1), up \in 0..(n - 1)}

\* The schemas with the given parents; each is registered with its parent
\* under its name.
TreeOf(links) ==
  [i \in 1..Len(links) |->
     CommandSchema(NameAt(i), <<>>, <<>>,
                   SelectSeq([j \in 1..Len(links) |->
                                [name |-> NameAt(j),
                                 schema |-> IF links[j] = i THEN j ELSE 0]],
                             LAMBDA item : item.schema # 0),
                   links[i])]

Trees == UNION {{TreeOf(links) : links \in ParentLinks(n)} : n \in 1..MaxSchemas}

\* node = self; path = [self]
path_start(self) ==
  [stage |-> "walking", self |-> self, node |-> self, path |-> <<self>>, result |-> <<>>]

\* One turn of the loop that returns the path as it was walked.
path_step_as_walked(w) ==
  IF schemas[w.node].parent = 0
  THEN [w EXCEPT !.stage = "returned", !.node = 0, !.result = w.path]
  ELSE [w EXCEPT !.node = schemas[w.node].parent,
                 !.path = Append(w.path, schemas[w.node].parent)]

\* One turn of the loop: node = node.parent; break and return
\* list(reversed(path)) when it is None, else path.append(node).
path_step(w) ==
  IF schemas[w.node].parent = 0
  THEN [w EXCEPT !.stage = "returned", !.node = 0, !.result = Reverse(w.path)]
  ELSE [w EXCEPT !.node = schemas[w.node].parent,
                 !.path = Append(w.path, schemas[w.node].parent)]

TreeInit ==
  /\ app = NoApp
  /\ form = NoForm
  /\ controls = NoControls
  /\ top = NoTop
  /\ declared = NoDeclared
  /\ schemas \in Trees
  /\ walk = NoWalk
  /\ param = NoParam
  /\ ReconstructionIdle

\* n.path_from_root is read.
PathFromRoot ==
  /\ walk.stage # "walking"
  /\ \E n \in 1..Len(schemas) : walk' = path_start(n)
  /\ UNCHANGED <<app, form, controls, top, declared, reconstruction, param, schemas>>

PathStep ==
  /\ walk.stage = "walking"
  /\ walk' = path_step(walk)
  /\ UNCHANGED <<app, form, controls, top, declared, reconstruction, param, schemas>>

TreeNext == PathFromRoot \/ PathStep

\* The loop goes on until it returns.
TreeSpec == TreeInit /\ [][TreeNext]_vars /\ WF_vars(PathStep)

(***************************************************************************)
(* Introspection: the click and the argparse adapter read a declared       *)
(* application and build its tree of command schemas.                      *)
(***************************************************************************)
\* A parameter as declared: an option or an argument.  hidden is
\* param.hidden for click, SUPPRESS in [param.help, param.default] for
\* argparse; tui is isinstance(param, TuiAction).
DeclaredParam(kind, name, hidden, tui) ==
  [kind |-> kind, name |-> name, hidden |-> hidden, tui |-> tui]

\* A command as declared.  hidden is cmd.hidden for click, description ==
\* SUPPRESS for argparse; launcher marks the parser that carries the
\* TuiAction; commands are the items of the commands dict of a group or of
\* the choices of the subparsers action.
DeclaredCommand(name, hidden, launcher, params, commands) ==
  [name |-> name, hidden |-> hidden, launcher |-> launcher,
   params |-> params, commands |-> commands]

\* The fields of the dataclass OptionSchema, inherited ones included.
OptionSchemaFields ==
  {"name", "type", "required", "help", "key", "default", "choices", "multiple",
   "multi_value", "nargs", "secret", "read_only", "placeholder",
   "is_flag", "counting", "secondary_opts"}

\* The fields of the dataclass ArgumentSchema.
ArgumentSchemaFields ==
  {"name", "type", "required", "help", "key", "default", "choices", "multiple",
   "multi_value", "nargs", "secret", "read_only", "placeholder"}

\* The keywords the click adapter passes to OptionSchema and ArgumentSchema.
ClickOptionKeywords ==
  {"name", "type", "is_flag", "counting", "secondary_opts", "required", "default",
   "help", "choices", "multiple", "nargs", "sensitive", "read_only", "placeholder"}

ClickArgumentKeywords ==
  {"name", "type", "required", "choices", "multiple", "default", "nargs"}

\* The keywords the argparse adapter passes to OptionSchema and ArgumentSchema.
ArgparseOptionKeywords ==
  {"name", "type", "is_flag", "counting", "secondary_opts", "required", "default",
   "help", "choices", "multiple", "multi_value", "nargs", "secret", "read_only",
   "placeholder"}

ArgparseArgumentKeywords ==
  {"name", "type", "required", "default", "help", "choices", "multiple",
   "multi_value", "nargs", "secret", "read_only", "placeholder"}

\* A dataclass constructor raises TypeError for a keyword that is no field.
ConstructorRaises(keywords, fields) == ~(keywords \subseteq fields)

\* What process_command has built so far: the objects, the place of the
\* schema it returns, or the exception.
Built(raised, heap, id) == [raised |-> raised, heap |-> heap, id |-> id]

\* click: an option that is hidden is passed over.
click_skip(prm) == prm.kind = "option" /\ prm.hidden
click_keywords == [option |-> ClickOptionKeywords, argument |-> ClickArgumentKeywords]

\* click: a subcommand is taken unless hidden or named in cmd_ignorelist.
click_takes(cmd, cmd_ignorelist) == ~cmd.hidden /\ ~InSeq(cmd.name, cmd_ignorelist)

\* argparse: a TuiAction, or an action with SUPPRESS as help or default,
\* is passed over.
argparse_skip(prm) == prm.tui \/ prm.hidden
argparse_keywords == [option |-> ArgparseOptionKeywords, argument |-> ArgparseArgumentKeywords]

\* argparse: a subparser is taken unless its description is SUPPRESS or it
\* is in cmd_ignorelist, which holds the parser that carries the TuiAction.
argparse_takes(cmd, cmd_ignorelist) ==
  ~cmd.hidden /\ (cmd_ignorelist = <<>> \/ ~cmd.launcher)

\* The for loop over the parameters of a command: cmd_data is heap[id].
\* An option is a click.Option, or an action with option strings.
RECURSIVE process_params(_, _, _, _)
process_params(adapter, params, heap, id) ==
  IF params = <<>> THEN Built(FALSE, heap, id)
  ELSE LET prm == Head(params)
           skip == IF adapter.name = "click" THEN click_skip(prm) ELSE argparse_skip(prm)
           keywords == IF adapter.name = "click" THEN click_keywords ELSE argparse_keywords
       IN
       IF skip THEN process_params(adapter, Tail(params), heap, id)
       ELSE IF prm.kind = "option"
       THEN IF ConstructorRaises(keywords.option, OptionSchemaFields)
            THEN Built(TRUE, heap, id)
            ELSE process_params(adapter, Tail(params),
                                [heap EXCEPT ![id].options = Append(@, prm.name)], id)
       ELSE IF ConstructorRaises(keywords.argument, ArgumentSchemaFields)
            THEN Built(TRUE, heap, id)
            ELSE process_params(adapter, Tail(params),
                                [heap EXCEPT ![id].arguments = Append(@, prm.name)], id)

\* cmd_data.subcommands[name] = schema
SetItem(items, name, id) ==
  IF \E k \in 1..Len(items) : items[k].name = name
  THEN [k \in 1..Len(items) |->
          IF items[k].name = name THEN [name |-> name, schema |-> id] ELSE items[k]]
  ELSE Append(items, [name |-> name, schema |-> id])

\* process_command of an adapter: the schema is made with its parent, the
\* parameters are read, then every subcommand that is taken is processed
\* with the new schema as parent and registered under its name.
RECURSIVE process_command(_, _, _, _, _)
RECURSIVE process_subcommands(_, _, _, _, _)
process_command(adapter, cmd_name, cmd_obj, parent, heap) ==
  CHOOSE out \in
    {IF made.raised THEN made
     ELSE process_subcommands(adapter, cmd_obj.commands, made.id, made.heap, made.id) :
       made \in {process_params(adapter, cmd_obj.params,
                                Append(heap, CommandSchema(cmd_name, <<>>, <<>>, <<>>, parent)),
                                Len(heap) + 1)}} : TRUE

process_subcommands(adapter, commands, parent, heap, id) ==
  IF commands = <<>> THEN Built(FALSE, heap, id)
  ELSE LET subcmd == Head(commands)
           taken == IF adapter.name = "click"
                    THEN click_takes(subcmd, adapter.cmd_ignorelist)
                    ELSE argparse_takes(subcmd, adapter.cmd_ignorelist)
       IN IF ~taken
          THEN process_subcommands(adapter, Tail(commands), parent, heap, id)
          ELSE CHOOSE out \in
                 {IF sub.raised THEN sub
                  ELSE process_subcommands(
                         adapter, Tail(commands), parent,
                         [sub.heap EXCEPT ![parent].subcommands =
                                            SetItem(@, subcmd.name, sub.id)],
                         id) :
                    sub \in {process_command(adapter, subcmd.name, subcmd, parent, heap)}} :
                 TRUE

\* The mapping an introspection returns, or the exception that left it.
RaisedTop == [stage |-> "raised", data |-> <<>>]
ReturnedTop(mapping) == [stage |-> "returned", data |-> mapping]

\* introspect_click_app: a group is processed under the name root, a
\* single command under its own name.
introspect_click_app(click_app, cmd_ignorelist) ==
  process_command([name |-> "click", cmd_ignorelist |-> cmd_ignorelist],
                  IF click_app.group THEN "root" ELSE click_app.name, click_app, 0, <<>>)

\* introspect_argparse_parser: the parser is processed under the name root.
introspect_argparse_parser(parser, cmd_ignorelist) ==
  process_command([name |-> "argparse", cmd_ignorelist |-> cmd_ignorelist],
                  "root", parser, 0, <<>>)

\* The parameters declared: an option, a hidden option, an argument, and
\* for argparse the option that launches the form.
ParamShout == DeclaredParam("option", "--shout", FALSE, FALSE)
ParamDebug == DeclaredParam("option", "--debug", TRUE, FALSE)
ParamName == DeclaredParam("argument", "name", FALSE, FALSE)
ParamTui == DeclaredParam("option", "--tui", TRUE, TRUE)

\* The lists of up to n different parameters.
ParamLists(n) ==
  {<<>>} \cup
  {params \in SeqsUpTo({ParamShout, ParamDebug, ParamName}, n) :
     \A i, j \in 1..Len(params) : i # j => params[i] # params[j]}

\* The command that launches the form: a click command named tui, or the
\* subparser that add_tui_command makes.
TuiCommand(adapter) ==
  IF adapter = "click"
  THEN DeclaredCommand("tui", FALSE, TRUE, <<>>, <<>>)
  ELSE DeclaredCommand("tui", TRUE, TRUE,
                       <<DeclaredParam("option", "cmd_filter", FALSE, TRUE)>>, <<>>)

RunCommands ==
  {DeclaredCommand("run", hidden, FALSE, params, <<>>) :
     hidden \in BOOLEAN, params \in ParamLists(MaxParams)}

DevGroups ==
  {DeclaredCommand("dev", hidden, FALSE, <<>>, <<sub>>) :
     hidden \in BOOLEAN,
     sub \in {DeclaredCommand("lint", h, FALSE, params, <<>>) :
               h \in BOOLEAN, params \in ParamLists(1)}}

\* The applications: a single command, or a group with the launching
\* command and another command or group.
DeclaredApps(adapter) ==
  {[group |-> FALSE] @@
     DeclaredCommand("hello", FALSE, adapter = "argparse",
                     IF adapter = "argparse" THEN Append(params, ParamTui) ELSE params,
                     <<>>) :
     params \in ParamLists(MaxParams)} \cup
  {[group |-> TRUE] @@ DeclaredCommand("cli", FALSE, FALSE, params, commands) :
     params \in ParamLists(1),
     commands \in {<<TuiCommand(adapter)>>}
                  \cup {<<run, TuiCommand(adapter)>> : run \in RunCommands}
                  \cup {<<TuiCommand(adapter), dev>> : dev \in DevGroups}}

DeclaredInit ==
  /\ app = NoApp
  /\ form = NoForm
  /\ controls = NoControls
  /\ \E adapter \in {"click", "argparse"} :
       \E declared_app \in DeclaredApps(adapter) :
         declared = [adapter |-> adapter, app |-> declared_app,
                     cmd_ignorelist |-> IF adapter = "click" THEN <<"tui">> ELSE <<"parser">>]
  /\ top = NoTop
  /\ schemas = <<>>
  /\ walk = NoWalk
  /\ param = NoParam
  /\ ReconstructionIdle

\* The tui command of trogon.click is run.
IntrospectClickApp ==
  /\ declared.adapter = "click"
  /\ top.stage = "idle"
  /\ \E built \in {introspect_click_app(declared.app, declared.cmd_ignorelist)} :
       IF built.raised
       THEN top' = RaisedTop /\ UNCHANGED schemas
       ELSE /\ top' = ReturnedTop(<<[name |-> built.heap[built.id].name, schema |-> built.id]>>)
            /\ schemas' = built.heap
  /\ UNCHANGED <<app, form, controls, reconstruction, param, walk, declared>>

\* The TuiAction of trogon.argparse is called.
IntrospectArgparseParser ==
  /\ declared.adapter = "argparse"
  /\ top.stage = "idle"
  /\ \E built \in {introspect_argparse_parser(declared.app, declared.cmd_ignorelist)} :
       IF built.raised
       THEN top' = RaisedTop /\ UNCHANGED schemas
       ELSE /\ top' = ReturnedTop(<<[name |-> built.heap[built.id].name, schema |-> built.id]>>)
            /\ schemas' = built.heap
  /\ UNCHANGED <<app, form, controls, reconstruction, param, walk, declared>>

IntrospectNext == IntrospectClickApp \/ IntrospectArgparseParser

IntrospectSpec == DeclaredInit /\ [][IntrospectNext]_vars

(***************************************************************************)
(* Trogon.from_schemas: the application assembled from command schemas     *)
(* that were defined one by one.                                           *)
(***************************************************************************)
\* from_schemas that registers the schemas and leaves their parent alone.
from_schemas_unparented(args, heap) ==
  IF args = <<>> THEN [raised |-> TRUE, heap |-> heap, data |-> <<>>]
  ELSE [raised |-> FALSE,
        heap |-> [heap EXCEPT ![args[1]].subcommands =
                    [k \in 1..(Len(args) - 1) |->
                       [name |-> heap[args[k + 1]].name, schema |-> args[k + 1]]]],
        data |-> <<[name |-> heap[args[1]].name, schema |-> args[1]]>>]

\* The for loop of from_schemas over args[1:], from the k-th argument on:
\* schema.parent = root_schema; root_schema.subcommands[schema.name] = schema
RECURSIVE register_schemas(_, _, _)
register_schemas(args, k, heap) ==
  IF k > Len(args) THEN heap
  ELSE register_schemas(
         args, k + 1,
         [heap EXCEPT ![args[k]].parent = args[1],
                      ![args[1]].subcommands = SetItem(@, heap[args[k]].name, args[k])])

\* from_schemas(*args): ValueError without a schema; else the first is the
\* root, the others are registered with it, and the mapping holds the root.
from_schemas(args, heap) ==
  IF args = <<>> THEN [raised |-> TRUE, heap |-> heap, data |-> <<>>]
  ELSE [raised |-> FALSE,
        heap |-> register_schemas(args, 2, heap),
        data |-> <<[name |-> heap[args[1]].name, schema |-> args[1]]>>]

\* The names given to schemas that are defined one by one.
SchemaNames == {"hello", "wat"}

\* Schemas defined one by one: no parent, no subcommands.
Standalone ==
  UNION {[1..n -> {CommandSchema(name, <<>>, <<>>, <<>>, 0) : name \in SchemaNames}] :
           n \in 1..(MaxSchemas - 1)}

\* The argument lists: different schemas, in any order.
ArgLists(n) ==
  {<<>>} \cup {args \in SeqsUpTo(1..n, n) :
                 \A i, j \in 1..Len(args) : i # j => args[i] # args[j]}

SchemasInit ==
  /\ app = NoApp
  /\ form = NoForm
  /\ controls = NoControls
  /\ schemas \in Standalone
  /\ declared = NoDeclared
  /\ top = NoTop
  /\ walk = NoWalk
  /\ param = NoParam
  /\ ReconstructionIdle

\* Trogon.from_schemas(*args) is called.
FromSchemas ==
  /\ top.stage = "idle"
  /\ \E args \in ArgLists(Len(schemas)) :
       \E made \in {from_schemas(args, schemas)} :
         /\ declared' = [adapter |-> "schemas", app |-> args, cmd_ignorelist |-> <<>>]
         /\ schemas' = made.heap
         /\ top' = IF made.raised THEN RaisedTop ELSE ReturnedTop(made.data)
  /\ UNCHANGED <<app, form, controls, reconstruction, param, walk>>

SchemasNext == FromSchemas \/ (top.stage = "returned" /\ PathFromRoot) \/ PathStep

SchemasSpec == SchemasInit /\ [][SchemasNext]_vars

(***************************************************************************)
(* ParameterControls: the control widgets of one parameter and get_values. *)
(* A control is [kind, value]; the value of an Input is a string, of a     *)
(* Select a string or None, of a Checkbox a boolean, of a MultipleChoice   *)
(* the list of what is selected.                                           *)
(***************************************************************************)
Control(kind, value) == [kind |-> kind, value |-> value]

\* The schema of a parameter as the form reads it: the click type with the
\* number of its element types, nargs, multiple, and the default as the
\* tuples of a MultiValueParamData.
ParamSchema(kind, arity, nargs, multiple, default) ==
  [type |-> [kind |-> kind, arity |-> arity], nargs |-> nargs, multiple |-> multiple,
   default |-> default]

\* get_control_method and the make_*_control it picks, for one type.
make_control(kind, default) ==
  CASE kind = "BOOL" ->
         Control("Checkbox", IF default # <<>> THEN default[1][1] ELSE ValueNotSupplied)
    [] kind = "Choice" -> Control("Select", PyNone)
    [] OTHER -> Control("Input", PyStr(<<>>))

\* make_widget_group: one control for every type of a click.Tuple, else
\* one control for the type.
make_widget_group(self) ==
  IF self.type.kind = "Tuple"
  THEN [i \in 1..self.type.arity |-> make_control("STRING", self.default)]
  ELSE <<make_control(self.type.kind, self.default)>>

\* _apply_default_value
apply_default_value(control_widget, default_value) ==
  IF control_widget.kind \in {"Input", "Select"}
  THEN [control_widget EXCEPT !.value = PyStr(ToStr(default_value))]
  ELSE control_widget

\* zip(default_value_tuple, widget_group) with the default applied
DefaultGroup(default_value_tuple, widget_group) ==
  [i \in 1..(IF Len(default_value_tuple) < Len(widget_group)
             THEN Len(default_value_tuple) ELSE Len(widget_group)) |->
     apply_default_value(widget_group[i], default_value_tuple[i])]

\* compose: a MultipleChoice for a Choice with multiple; else a group for
\* every default tuple, and one more if multiple or without default.
compose(self) ==
  IF self.type.kind = "Choice" /\ self.multiple
  THEN <<Control("MultipleChoice", PyList(Concat(self.default)))>>
  ELSE Concat([k \in 1..Len(self.default) |->
                 DefaultGroup(self.default[k], make_widget_group(self))])
       \o (IF self.multiple \/ self.default = <<>>
           THEN make_widget_group(self) ELSE <<>>)

\* _get_form_control_value
get_form_control_value(control) ==
  CASE control.kind = "MultipleChoice" -> control.value
    [] control.kind = "Select" ->
         IF control.value = PyNone THEN ValueNotSupplied ELSE control.value
    [] control.kind = "Input" ->
         IF control.value = PyStr(<<>>) THEN ValueNotSupplied ELSE control.value
    [] OTHER -> control.value

\* [tuple(lst[i : i + tuple_size]) for i in range(0, len(lst), tuple_size)]
RECURSIVE Slices(_, _)
Slices(lst, tuple_size) ==
  IF lst = <<>> THEN <<>>
  ELSE IF Len(lst) <= tuple_size THEN <<lst>>
  ELSE <<SubSeq(lst, 1, tuple_size)>>
       \o Slices(SubSeq(lst, tuple_size + 1, Len(lst)), tuple_size)

\* list_to_tuples inside get_values
list_to_tuples(lst, tuple_size) ==
  IF tuple_size = 0 THEN <<<<>>>>
  ELSE IF tuple_size = 0 - 1 THEN Slices(lst, 1)
  ELSE Slices(lst, tuple_size)

\* ParameterControls.get_values: the values of the MultiValueParamData.
get_values(widgets, self) ==
  IF Len(widgets) = 1 /\ widgets[1].kind = "MultipleChoice"
  THEN process_cli_option(get_form_control_value(widgets[1]))
  ELSE process_cli_option(
         MultiValueParamData(
           list_to_tuples([i \in 1..Len(widgets) |-> get_form_control_value(widgets[i])],
                          self.nargs)))

\* What a user puts into a control.
Entered(control) ==
  CASE control.kind = "Input" -> {PyStr(<<>>), PyStr(<<"a">>), PyStr(<<"b">>)}
    [] control.kind = "Select" -> {PyNone, PyStr(<<"x">>), PyStr(<<"y">>)}
    [] control.kind = "Checkbox" -> {PyBool(TRUE), PyBool(FALSE)}
    [] OTHER -> {PyList(<<>>), PyList(<<PyStr(<<"x">>)>>),
                 PyList(<<PyStr(<<"x">>), PyStr(<<"y">>)>>)}

\* The parameters of click declarations: a type that is not a click.Tuple
\* with nargs 1, with nargs above 1 (as in nargs=2, type=float) or, for an
\* argument, with nargs -1; a click.Tuple, whose nargs is the number of its
\* types; a flag; a Choice.
ParamSchemas ==
  {ParamSchema("STRING", 1, 1, multiple, default) :
     multiple \in BOOLEAN, default \in {<<>>, <<<<PyStr(<<"d">>)>>>>}}
  \cup UNION {{ParamSchema("STRING", 1, nargs, FALSE, default) :
                 default \in {<<>>, <<[i \in 1..nargs |-> PyStr(<<"d">>)]>>}} :
               nargs \in 2..MaxNargs}
  \cup {ParamSchema("STRING", 1, 0 - 1, FALSE, <<>>)}
  \cup UNION {{ParamSchema("Tuple", nargs, nargs, multiple, default) :
                 multiple \in BOOLEAN,
                 default \in {<<>>, <<[i \in 1..nargs |-> PyInt(i)]>>}} :
               nargs \in 2..MaxNargs}
  \cup {ParamSchema("BOOL", 1, 1, FALSE, <<<<PyBool(FALSE)>>>>)}
  \cup {ParamSchema("Choice", 1, 1, multiple, default) :
          multiple \in BOOLEAN, default \in {<<>>, <<<<PyStr(<<"x">>)>>>>}}

ControlsInit ==
  /\ app = NoApp
  /\ form = NoForm
  /\ \E self \in ParamSchemas :
       controls = [NoControls EXCEPT !.schema = self, !.widgets = compose(self)]
  /\ declared = NoDeclared
  /\ top = NoTop
  /\ schemas = <<>>
  /\ walk = NoWalk
  /\ param = NoParam
  /\ ReconstructionIdle

\* The button "+ value", shown if multiple or nargs is -1 and the type is
\* no Choice: one more widget group is mounted.
AddAnotherWidgetGroup ==
  /\ controls.schema.multiple \/ controls.schema.nargs = 0 - 1
  /\ controls.schema.type.kind # "Choice"
  /\ Len(controls.widgets) + Len(make_widget_group(controls.schema)) <= MaxControls
  /\ controls' = [controls EXCEPT !.widgets = @ \o make_widget_group(controls.schema)]
  /\ UNCHANGED <<app, form, reconstruction, param, walk, declared, top, schemas>>

\* The user changes the value of a control.
ControlChanged ==
  /\ \E i \in 1..Len(controls.widgets) :
       \E v \in Entered(controls.widgets[i]) \ {controls.widgets[i].value} :
         controls' = [controls EXCEPT !.widgets[i].value = v]
  /\ UNCHANGED <<app, form, reconstruction, param, walk, declared, top, schemas>>

\* get_values is called.
GetValues ==
  /\ controls' = [controls EXCEPT
                    !.got = [stage |-> "returned",
                             values |-> get_values(controls.widgets, controls.schema)]]
  /\ UNCHANGED <<app, form, reconstruction, param, walk, declared, top, schemas>>

ControlsNext == AddAnotherWidgetGroup \/ ControlChanged \/ GetValues

ControlsSpec == ControlsInit /\ [][ControlsNext]_vars

(***************************************************************************)
(* CommandForm._form_changed: the command data built from the form and     *)
(* posted in CommandForm.Changed.  UserCommandData objects are places in   *)
(* form.objects; subcommand and parent are places, 0 for None.             *)
(***************************************************************************)
\* UserCommandData(name, options, arguments, subcommand, parent, command_schema)
UserCommandData(name, options, arguments, subcommand, parent, command_schema) ==
  [name |-> name, options |-> options, arguments |-> arguments,
   subcommand |-> subcommand, parent |-> parent, command_schema |-> command_schema]

\* command_schema.path_from_root, the loop run to its return.
RECURSIVE run_path(_)
run_path(w) == IF w.stage = "returned" THEN w.result ELSE run_path(path_step(w))

path_from_root(n) == run_path(path_start(n))

\* The option datas of a command: one UserOptionData for every tuple that
\* get_values returned for an option of the command.
option_datas(command, values) ==
  Concat([k \in 1..Len(schemas[command].options) |->
            [j \in 1..Len(values[command]) |->
               [name |-> schemas[command].options[k], value |-> values[command][j],
                option_schema |-> <<command, k>>]]])

\* The for loop over path_from_root, from the k-th command on: the command
\* data is made with the one before it as parent and becomes the
\* subcommand of that one.
RECURSIVE build_chain(_, _, _, _, _)
build_chain(path, k, parent_command_data, objects, values) ==
  IF k > Len(path) THEN objects
  ELSE build_chain(
         path, k + 1, Len(objects) + 1,
         [Append(objects,
                 UserCommandData(schemas[path[k]].name, option_datas(path[k], values), <<>>,
                                 0, parent_command_data, path[k]))
            EXCEPT ![parent_command_data].subcommand = Len(objects) + 1],
         values)

\* _form_changed that posts the chain with the sentinel still on it.
form_changed_untrimmed(command_schema, objects, values) ==
  CHOOSE out \in
    {[objects |-> built, root_command_data |-> built[Len(objects) + 1].subcommand] :
       built \in {build_chain(path_from_root(command_schema), 1, Len(objects) + 1,
                              Append(objects, UserCommandData("_", <<>>, <<>>, 0, 0, 0)),
                              values)}} : TRUE

\* _form_changed: the chain is built under the sentinel "_", the sentinel
\* is trimmed, and the root of the chain is posted.
form_changed(command_schema, objects, values) ==
  CHOOSE out \in
    {[objects |-> [built EXCEPT ![built[Len(objects) + 1].subcommand].parent = 0],
      root_command_data |-> built[Len(objects) + 1].subcommand] :
       built \in {build_chain(path_from_root(command_schema), 1, Len(objects) + 1,
                              Append(objects, UserCommandData("_", <<>>, <<>>, 0, 0, 0)),
                              values)}} : TRUE

\* The trees of the form: every command has one option.
FormTrees ==
  {[i \in 1..Len(tree) |-> [tree[i] EXCEPT !.options = <<<<"-", "-", "o", Digit(i)>>>>]] :
     tree \in Trees}

\* What get_values returns for the option of a command: nothing supplied,
\* or a value.
FormValues == {<<<<ValueNotSupplied>>>>, <<<<PyStr(<<"a">>)>>>>}

FormInit ==
  /\ app = NoApp
  /\ schemas \in FormTrees
  /\ form = NoForm
  /\ controls = NoControls
  /\ declared = NoDeclared
  /\ top = NoTop
  /\ walk = NoWalk
  /\ param = NoParam
  /\ ReconstructionIdle

\* A command is selected: its form is mounted, and on_mount calls
\* _form_changed.
FormMounted ==
  /\ Len(form.posted) < MaxPosted
  /\ \E n \in 1..Len(schemas) :
       \E out \in {form_changed(n, form.objects,
                                [id \in 1..Len(schemas) |-> <<<<ValueNotSupplied>>>>])} :
         form' = [command_schema |-> n, objects |-> out.objects,
                  posted |-> Append(form.posted,
                                    [command_data |-> out.root_command_data,
                                     command_schema |-> n])]
  /\ UNCHANGED <<app, reconstruction, param, walk, declared, top, schemas, controls>>

\* on_input_changed, on_select_changed, on_checkbox_changed and
\* on_multiple_choice_changed: a control changed, _form_changed is called.
FormControlChanged ==
  /\ form.command_schema # 0
  /\ Len(form.posted) < MaxPosted
  /\ \E values \in [1..Len(schemas) -> FormValues] :
       \E out \in {form_changed(form.command_schema, form.objects, values)} :
         form' = [form EXCEPT
                    !.objects = out.objects,
                    !.posted = Append(@, [command_data |-> out.root_command_data,
                                          command_schema |-> form.command_schema])]
  /\ UNCHANGED <<app, reconstruction, param, walk, declared, top, schemas, controls>>

FormNext == FormMounted \/ FormControlChanged

FormSpec == FormInit /\ [][FormNext]_vars

(***************************************************************************)
(* The application: the CommandBuilder screen and the Trogon app handle    *)
(* CommandForm.Changed one after the other, each from its own message      *)
(* queue; Close & Run and the end of Trogon.run.                           *)
(***************************************************************************)
\* The command of the application: a single command with the option
\* -o/--opt.
AppSchema == CHOOSE command_schema \in Schemas : command_schema.options = <<OptStr>>

\* The form states the form reports: the option at its default, not
\* supplied, or set.
AppFormStates ==
  {command_data \in CommandDatas(AppSchema) : command_data.arguments = <<>>}

\* The form state of a form that was just mounted: nothing is supplied.
MountedFormStates ==
  {command_data \in AppFormStates : to_cli_args(command_data, FALSE).args = <<>>}

\* The finally block of run that asks for post_run_command alone.
run_finally_unasked(self) ==
  IF self.post_run_command # <<>>
  THEN [self EXCEPT !.stage = "done", !.executed = Append(@, self.post_run_command)]
  ELSE [self EXCEPT !.stage = "done"]

\* The finally block of Trogon.run: os.execvpe with the arguments if
\* post_run_command is not empty and execute_on_exit is set.
run_finally(self) ==
  IF self.post_run_command # <<>> /\ self.execute_on_exit
  THEN [self EXCEPT !.stage = "done", !.executed = Append(@, self.post_run_command)]
  ELSE [self EXCEPT !.stage = "done"]

AppInit ==
  /\ app = [NoApp EXCEPT !.stage = "ui"]
  /\ form = NoForm
  /\ controls = NoControls
  /\ declared = NoDeclared
  /\ top = NoTop
  /\ schemas = <<>>
  /\ walk = NoWalk
  /\ param = NoParam
  /\ ReconstructionIdle

\* The messages the form has posted so far are bounded.
MayPost == app.stage = "ui" /\ app.posts < MaxPosted

\* selected_command_changed: the form of the command is mounted, and its
\* on_mount posts Changed.
SelectedCommandChanged ==
  /\ MayPost
  /\ \E command_data \in MountedFormStates :
       app' = [app EXCEPT !.posts = @ + 1,
                          !.screen_queue = Append(@, command_data)]
  /\ UNCHANGED <<reconstruction, param, walk, declared, top, schemas, controls, form>>

\* A control of the form changed: _form_changed posts Changed.
FormChanged ==
  /\ MayPost
  /\ app.posts > 0
  /\ \E command_data \in AppFormStates :
       app' = [app EXCEPT !.posts = @ + 1,
                          !.screen_queue = Append(@, command_data)]
  /\ UNCHANGED <<reconstruction, param, walk, declared, top, schemas, controls, form>>

\* CommandBuilder.update_command_data; the message then bubbles to the app.
UpdateCommandData ==
  /\ app.stage \in {"ui", "exiting"}
  /\ app.screen_queue # <<>>
  /\ app' = [app EXCEPT !.command_data = Head(app.screen_queue),
                        !.reported = TRUE,
                        !.screen_queue = Tail(@),
                        !.app_queue = Append(@, Head(app.screen_queue))]
  /\ UNCHANGED <<reconstruction, param, walk, declared, top, schemas, controls, form>>

\* Trogon.update_command_to_run
UpdateCommandToRun ==
  /\ app.stage \in {"ui", "exiting"}
  /\ app.app_queue # <<>>
  /\ \E r \in {to_cli_args(Head(app.app_queue), FALSE)} :
       app' = [app EXCEPT !.post_run_command = r.args, !.app_queue = Tail(@)]
  /\ UNCHANGED <<reconstruction, param, walk, declared, top, schemas, controls, form>>

\* CommandBuilder.action_close_and_run, bound to ctrl+r.  Without command
\* data the attribute access on None raises and the UI ends.
ActionCloseAndRun ==
  /\ app.stage = "ui"
  /\ IF ~app.reported
     THEN app' = [app EXCEPT !.stage = "exited"]
     ELSE \E r \in {to_cli_string(app.command_data, DefaultIncludeRoot)} :
            app' = [app EXCEPT !.post_run_command_redacted = r.text,
                               !.execute_on_exit = TRUE,
                               !.asked = "close_and_run",
                               !.asked_with = [command_data |-> app.command_data,
                                               post_run_command |-> app.post_run_command],
                               !.stage = "exiting"]
  /\ UNCHANGED <<reconstruction, param, walk, declared, top, schemas, controls, form>>

\* Trogon.on_button_pressed, of the button home-exec-button.
OnButtonPressed ==
  /\ app.stage = "ui"
  /\ app' = [app EXCEPT !.execute_on_exit = TRUE, !.asked = "button", !.stage = "exiting"]
  /\ UNCHANGED <<reconstruction, param, walk, declared, top, schemas, controls, form>>

\* The user quits the UI in another way: exit is called without
\* execute_on_exit.
Quit ==
  /\ app.stage = "ui"
  /\ app' = [app EXCEPT !.stage = "exiting"]
  /\ UNCHANGED <<reconstruction, param, walk, declared, top, schemas, controls, form>>

\* super().run() returns: the UI event loop has ended, with or without
\* the messages still queued having been handled.
UiEnds ==
  /\ app.stage = "exiting"
  /\ app' = [app EXCEPT !.stage = "exited"]
  /\ UNCHANGED <<reconstruction, param, walk, declared, top, schemas, controls, form>>

\* The finally block of Trogon.run.
RunFinally ==
  /\ app.stage = "exited"
  /\ app' = run_finally(app)
  /\ UNCHANGED <<reconstruction, param, walk, declared, top, schemas, controls, form>>

AppNext ==
  \/ SelectedCommandChanged
  \/ FormChanged
  \/ UpdateCommandData
  \/ UpdateCommandToRun
  \/ ActionCloseAndRun
  \/ OnButtonPressed
  \/ Quit
  \/ UiEnds
  \/ RunFinally

AppSpec == AppInit /\ [][AppNext]_vars

(***************************************************************************)
(* The normaliser on its own: process_cli_option applied to a raw value.   *)
(***************************************************************************)
\* The values of a parameter that are no tuple and no list.
Scalars ==
  {PyBool(FALSE), PyBool(TRUE), PyInt(0), PyInt(1), PyStr(<<>>), S1("a"),
   ValueNotSupplied}

\* The sequences over S of length 0..n.
SeqsFromZero(S, n) == {<<>>} \cup SeqsUpTo(S, n)

\* The tuples given as one raw value or as an item of a list.
RawTuples == {PyTuple(items) : items \in SeqsFromZero({PyInt(0), S1("a"), VNS}, MaxNargs)}

\* The items of a raw list: scalars and tuples.
RawItems == {PyInt(0), S1("a"), PyBool(FALSE), PyTuple(<<>>), T1(S1("a")), T2(PyInt(0), S1("a"))}

RawValues ==
  {PyNone} \cup Scalars \cup RawTuples
    \cup {PyList(items) : items \in SeqsFromZero(RawItems, MaxOccurrences)}

NormaliserInit ==
  /\ app = NoApp
  /\ form = NoForm
  /\ controls = NoControls
  /\ top = NoTop
  /\ declared = NoDeclared
  /\ walk = NoWalk
  /\ schemas = <<>>
  /\ param = NoParam
  /\ raw \in RawValues
  /\ normalised = PyNone
  /\ schema = [name |-> RootName, options |-> <<>>, arguments |-> <<>>,
               subcommands |-> <<>>]
  /\ given = CommandData(schema, <<>>, Rest(<<>>, <<>>))
  /\ data = given
  /\ fills = 0
  /\ ret = NoCall

\* MultiValueParamData.process_cli_option(raw)
Normalise ==
  /\ normalised' = MultiValueParamData(process_cli_option(raw))
  /\ UNCHANGED <<app, form, controls, top, declared, walk, schemas, param, schema, given, data, fills, ret, raw>>

NormaliserNext == Normalise

NormaliserSpec == NormaliserInit /\ [][NormaliserNext]_vars

(***************************************************************************)
(* Properties.  What they need beside the model: the calls that returned,  *)
(* multisets of string casts, the spellings of an option, and the command  *)
(* data without one of its options.                                        *)
(***************************************************************************)
Returned_to_cli_args == ret.op = "to_cli_args" /\ ~ret.raised
Returned_to_cli_string == ret.op = "to_cli_string" /\ ~ret.raised

Count(x, sq) == Cardinality({i \in 1..Len(sq) : sq[i] = x})

\* The two lists hold the same strings the same number of times: they are
\* equal once sorted.
SameStrings(a, b) ==
  /\ Len(a) = Len(b)
  /\ \A i \in 1..Len(a) : Count(ToStr(a[i]), MapStr(a)) = Count(ToStr(a[i]), MapStr(b))

NoneSupplied(values) == \A i \in 1..Len(values) : values[i] = ValueNotSupplied

\* The declared spellings of an option, the negative ones included.
Spellings(option_schema) ==
  (IF option_schema.name.k = "str" THEN {option_schema.name}
   ELSE {option_schema.name.t[i] : i \in 1..Len(option_schema.name.t)})
    \cup {option_schema.secondary_opts[i] : i \in 1..Len(option_schema.secondary_opts)}

\* A token that spells the option: one of its spellings, or the letters of
\* a short spelling repeated behind one dash.
Spells(token, option_schema) ==
  /\ token.k = "str"
  /\ \/ token \in Spellings(option_schema)
     \/ \E sp \in Spellings(option_schema), n \in 1..(MaxCount + 1) :
          /\ ~StartsWith(sp.s, <<"-", "-">>)
          /\ token.s = <<"-">> \o Repeat(LStrip(sp.s, "-"), n)

Mentioned(args, option_schema) ==
  \E i \in 1..Len(args) : Spells(args[i], option_schema)

\* The flattened sub-values of an option entry and of its default.
SubValues(option) == Flatten(process_cli_option(option.value))
DefaultSubValues(option) == Flatten(option.option_schema.default)

\* C1: to_cli_args emits no token for a single-occurrence option whose
\* sub-values, cast to strings and sorted, equal those of its default, or
\* which has no sub-value that is not the sentinel, whatever the kinds of
\* the elements.
C1_DefaultsSuppressed ==
  Returned_to_cli_args =>
    \A i \in 1..Len(data.options) :
       LET option == data.options[i]
       IN (/\ ~option.option_schema.multiple
           /\ \/ SameStrings(SubValues(option), DefaultSubValues(option))
              \/ NoneSupplied(SubValues(option)))
          => ~Mentioned(ret.args, option.option_schema)

\* A state of C1's case: the pair of --sz supplied as the strings "10" and
\* "9", its default the integers 10 and 9, and --sz among the tokens.
C1_PairOfStrings ==
  /\ Returned_to_cli_args
  /\ \E i \in 1..Len(data.options) :
       /\ data.options[i].option_schema = OptSize
       /\ data.options[i].value = T2(Ten, S1("9"))
  /\ Mentioned(ret.args, OptSize)

\* The command data was constructed with no option, no argument and no
\* subcommand, and fill_defaults has been called on it.
DefaultsOnly ==
  /\ given.options = <<>>
  /\ given.arguments = <<>>
  /\ given.subcommand = <<>>
  /\ fills >= 1

\* The individual default values of the arguments of a schema, in order.
ArgumentDefaults(command_schema) ==
  Concat([i \in 1..Len(command_schema.arguments) |->
            Flatten(command_schema.arguments[i].default)])

\* C2: fill_defaults on command data without options and arguments, then
\* to_cli_args(include_root_command=False), gives no option token and
\* exactly the individual default values of the arguments, in schema order.
C2_DefaultsReproduced ==
  (Returned_to_cli_args /\ ~ret.include_root /\ DefaultsOnly) =>
    /\ \A i \in 1..Len(schema.options) : ~Mentioned(ret.args, schema.options[i])
    /\ MapStr(ret.args) = MapStr(ArgumentDefaults(schema))

\* A state of C2's case: the only token is the default tuple of arg1, (5,).
C2_TupleToken ==
  /\ Returned_to_cli_args /\ ~ret.include_root /\ DefaultsOnly
  /\ ret.args = <<T1(PyInt(5))>>

\* The tuples supplied for one option: the values of its entries, in order.
RECURSIVE TuplesOf(_, _)
TuplesOf(options, option_schema) ==
  IF options = <<>> THEN <<>>
  ELSE (IF Head(options).option_schema = option_schema
        THEN <<Iter(Head(options).value)>> ELSE <<>>)
         \o TuplesOf(Tail(options), option_schema)

\* part is a run of consecutive elements of whole
Contains(whole, part) ==
  \E p \in 0..(Len(whole) - Len(part)) : SubSeq(whole, p + 1, p + Len(part)) = part

FirstSpelling(option_schema) ==
  IF option_schema.name.k = "str" THEN option_schema.name ELSE option_schema.name.t[1]

\* C3: for a repeatable option whose supplied values (the sentinels left
\* out, as strings) are not the multiset of its default values, to_cli_args
\* emits one occurrence, the flag followed by the values of the occurrence,
\* per supplied tuple that is not made of sentinels only, and no other.
C3_OccurrenceCount ==
  Returned_to_cli_args =>
    \A i \in 1..Len(schema.options) :
       LET option_schema == schema.options[i]
           tuples == TuplesOf(data.options, option_schema)
           emitted == {j \in 1..Len(tuples) : ~NoneSupplied(tuples[j])}
       IN (/\ option_schema.multiple
           /\ ~SameStrings(Supplied(Concat(tuples)),
                           Supplied(Flatten(option_schema.default))))
          => /\ Count(FirstSpelling(option_schema), ret.args) = Cardinality(emitted)
             /\ \A j \in emitted :
                  Contains(ret.args, <<FirstSpelling(option_schema)>> \o tuples[j])

\* A state of C3's case: a repeatable option with a tuple of sentinels only
\* and a tuple with a value, emitted once.
C3_OneOfTwo ==
  /\ Returned_to_cli_args
  /\ \E i \in 1..Len(schema.options) :
       LET tuples == TuplesOf(data.options, schema.options[i])
       IN /\ schema.options[i].multiple
          /\ Len(tuples) = 2
          /\ \E j, k \in 1..2 : NoneSupplied(tuples[j]) /\ ~NoneSupplied(tuples[k])
          /\ Count(FirstSpelling(schema.options[i]), ret.args) = 1

\* C4: a second call of fill_defaults with the same schema leaves the
\* command data as the first call left it: options, arguments and
\* subcommand data at every level.
C4_FillDefaultsIdempotent ==
  [][(fills = 1 /\ fills' = 2) => data' = data]_vars

\* A state of C4's case: fill_defaults was called twice on command data to
\* which it had entries to add, at the root and in the subcommand.
C4_FilledTwice ==
  /\ fills = 2
  /\ Len(data.options) > Len(given.options)
  /\ Len(data.arguments) > Len(given.arguments)
  /\ given.subcommand # <<>>
  /\ data.subcommand # given.subcommand

(***************************************************************************)
(* The display string as a shell reads it: the words between the blanks    *)
(* that are outside quotes, and a word with its quotes removed.            *)
(***************************************************************************)
\* The words of a command line, their quotes kept.  quote is the quote
\* character the scan is inside of, "" outside quotes.
RECURSIVE SplitWords(_, _, _, _)
SplitWords(chars, quote, word, words) ==
  IF chars = <<>> THEN (IF word = <<>> THEN words ELSE Append(words, word))
  ELSE LET c == Head(chars)
       IN IF quote = ""
          THEN IF c = " "
               THEN SplitWords(Tail(chars), "", <<>>,
                               IF word = <<>> THEN words ELSE Append(words, word))
               ELSE SplitWords(Tail(chars), IF c \in {"'", "\""} THEN c ELSE "",
                               Append(word, c), words)
          ELSE SplitWords(Tail(chars), IF c = quote THEN "" ELSE quote,
                          Append(word, c), words)

Words(text) == SplitWords(text, "", <<>>, <<>>)

\* The argument a shell passes for a word: the quotes removed.
RECURSIVE Unquote(_, _)
Unquote(word, quote) ==
  IF word = <<>> THEN <<>>
  ELSE LET c == Head(word)
       IN IF quote = ""
          THEN IF c \in {"'", "\""} THEN Unquote(Tail(word), c)
               ELSE <<c>> \o Unquote(Tail(word), "")
          ELSE IF c = quote THEN Unquote(Tail(word), "")
          ELSE <<c>> \o Unquote(Tail(word), quote)

\* The words from position p + 1 on show the sub-values of a tuple: the
\* placeholder for a sentinel, a word that reads as the value otherwise.
ShowsTuple(words, p, tuple) ==
  /\ p + Len(tuple) <= Len(words)
  /\ \A k \in 1..Len(tuple) :
       IF tuple[k] = ValueNotSupplied THEN words[p + k] = Placeholder
       ELSE /\ words[p + k] # Placeholder
            /\ Unquote(words[p + k], "") = ToStr(tuple[k])

\* Somewhere the words show the spelling followed by the tuple.
ShowsOption(words, spelling, tuple) ==
  \E p \in 1..Len(words) : words[p] = spelling.s /\ ShowsTuple(words, p, tuple)

ShowsArgument(words, tuple) ==
  \E p \in 0..Len(words) : ShowsTuple(words, p, tuple)

\* A tuple with a real value and a sentinel.
PartlyFilled(tuple) ==
  /\ \E k \in 1..Len(tuple) : tuple[k] = ValueNotSupplied
  /\ \E k \in 1..Len(tuple) : tuple[k] # ValueNotSupplied

LongestSpelling(option_schema) ==
  IF option_schema.name.k = "str" THEN option_schema.name
  ELSE MaxByLen(option_schema.name.t)

\* The spelling that goes with the values of an option.
ValueSpelling(option_schema) ==
  IF option_schema.multiple THEN FirstSpelling(option_schema)
  ELSE LongestSpelling(option_schema)

\* The tuple of entry i of the options of a command.
TupleOf(option) ==
  IF option.option_schema.multiple THEN Iter(option.value)
  ELSE SubValues(option)

\* The supplied values of a repeatable option are the values of its default.
RepeatableAtDefault(cmd, option_schema) ==
  SameStrings(Supplied(Concat(TuplesOf(cmd.options, option_schema))),
              Supplied(Flatten(option_schema.default)))

\* C5, as claimed: to_cli_string shows every partly filled tuple, of an
\* option or of an argument, with one ??? per sentinel at its position.
C5_EverySentinelShown ==
  Returned_to_cli_string =>
    /\ \A i \in 1..Len(data.options) :
         PartlyFilled(TupleOf(data.options[i])) =>
           ShowsOption(Words(ret.text), ValueSpelling(data.options[i].option_schema),
                       TupleOf(data.options[i]))
    /\ \A i \in 1..Len(data.arguments) :
         (data.arguments[i].value.k = "tuple"
            /\ PartlyFilled(data.arguments[i].value.t)) =>
           ShowsArgument(Words(ret.text), data.arguments[i].value.t)

\* The sentinels of the options of a command that are displayed: entry i,
\* position k.
ShownSentinels(cmd) ==
  {ik \in UNION {{<<i, k>> : k \in 1..Len(TupleOf(cmd.options[i]))} :
                   i \in 1..Len(cmd.options)} :
     LET option == cmd.options[ik[1]]
         tuple == TupleOf(option)
     IN /\ tuple[ik[2]] = ValueNotSupplied
        /\ ~NoneSupplied(tuple)
        /\ option.option_schema.multiple =>
              ~RepeatableAtDefault(cmd, option.option_schema)}

RECURSIVE ChainSentinels(_)
ChainSentinels(cmd) ==
  Cardinality(ShownSentinels(cmd))
    + (IF cmd.subcommand = <<>> THEN 0 ELSE ChainSentinels(cmd.subcommand[1]))

\* C5, amended: to_cli_string shows the partly filled tuple of a displayed
\* value-bearing option (a single-occurrence one always is displayed, a
\* repeatable one unless its supplied values are those of its default)
\* with one ??? per sentinel at its position; these are the only ???
\* placeholders: the sentinels of an argument are left out.
C5_OptionSentinelsShown ==
  Returned_to_cli_string =>
    /\ \A i \in 1..Len(data.options) :
         LET option_schema == data.options[i].option_schema
         IN (/\ PartlyFilled(TupleOf(data.options[i]))
             /\ ~option_schema.is_flag /\ ~option_schema.counting
             /\ option_schema.multiple => ~RepeatableAtDefault(data, option_schema))
            => ShowsOption(Words(ret.text), ValueSpelling(option_schema),
                           TupleOf(data.options[i]))
    /\ Count(Placeholder, Words(ret.text)) = ChainSentinels(data)

\* A state of C5's case: an option and an argument with a partly filled
\* pair each, and one ??? in the string.
C5_PartlyFilledPairs ==
  /\ Returned_to_cli_string
  /\ \E i \in 1..Len(data.options) : PartlyFilled(TupleOf(data.options[i]))
  /\ \E i \in 1..Len(data.arguments) :
       data.arguments[i].value.k = "tuple" /\ PartlyFilled(data.arguments[i].value.t)
  /\ Count(Placeholder, Words(ret.text)) = 1

(***************************************************************************)
(* The tokens of one option among the tokens of the command.               *)
(***************************************************************************)
\* The command data without entry i of its options.
WithoutOption(cmd, i) ==
  [cmd EXCEPT !.options =
     SubSeq(cmd.options, 1, i - 1) \o SubSeq(cmd.options, i + 1, Len(cmd.options))]

\* full is base with the tokens extra put in at one place.
InsertedAt(base, extra, full) ==
  \E p \in 0..Len(base) :
     full = SubSeq(base, 1, p) \o extra \o SubSeq(base, p + 1, Len(base))

\* The tokens returned are those of the command without entry i of its
\* options, with the tokens extra for that entry.
OptionEmits(i, extra) ==
  InsertedAt(to_cli_args(WithoutOption(data, i), ret.include_root).args, extra,
             ret.args)

\* A single-occurrence option is suppressed: its values are those of its
\* default, or none of them is supplied.
Suppressed(option) ==
  \/ SameStrings(SubValues(option), DefaultSubValues(option))
  \/ NoneSupplied(SubValues(option))

\* The tokens of the returned list that spell the option.
RECURSIVE SpelledBy(_, _)
SpelledBy(args, option_schema) ==
  IF args = <<>> THEN <<>>
  ELSE (IF Spells(Head(args), option_schema) THEN <<Head(args)>> ELSE <<>>)
         \o SpelledBy(Tail(args), option_schema)

LongestOf(names) ==
  CHOOSE x \in {names[i] : i \in 1..Len(names)} :
    /\ \A j \in 1..Len(names) : Len(names[j].s) <= Len(x.s)
    /\ \A j \in 1..Len(names) :
         Len(names[j].s) = Len(x.s) =>
           (CHOOSE k \in 1..Len(names) : names[k] = x) <= j

\* What a flag that is not suppressed has to emit.
FlagExpected(option) ==
  IF SubValues(option) = <<PyBool(TRUE)>>
  THEN <<LongestSpelling(option.option_schema)>>
  ELSE IF option.option_schema.secondary_opts # <<>>
  THEN <<LongestOf(option.option_schema.secondary_opts)>>
  ELSE <<>>

\* C6: a single-occurrence flag that is not suppressed emits exactly one
\* token and no value: its longest spelling when its value is True, its
\* longest negative spelling when the value is false and it has one;
\* nothing when the value is false and it has none.
C6_FlagSpelling ==
  Returned_to_cli_args =>
    \A i \in 1..Len(data.options) :
       LET option == data.options[i]
       IN (/\ option.option_schema.is_flag
           /\ ~option.option_schema.multiple
           /\ SubValues(option) \in {<<PyBool(TRUE)>>, <<PyBool(FALSE)>>}
           /\ ~Suppressed(option))
          => /\ OptionEmits(i, FlagExpected(option))
             /\ SpelledBy(ret.args, option.option_schema) = FlagExpected(option)

\* A state of C6's case: --all/--not-all with default True and the value
\* False, and --not-all among the tokens.
C6_NotAll ==
  /\ Returned_to_cli_args
  /\ \E i \in 1..Len(data.options) :
       /\ data.options[i].option_schema = OptAll
       /\ data.options[i].value = T1(PyBool(FALSE))
  /\ SpelledBy(ret.args, OptAll) = <<PyStr(<<"-", "-", "n", "o", "t", "-", "a", "l", "l">>)>>

ShortestOf(names) ==
  CHOOSE x \in {names[i] : i \in 1..Len(names)} :
    /\ \A j \in 1..Len(names) : Len(names[j].s) >= Len(x.s)
    /\ \A j \in 1..Len(names) :
         Len(names[j].s) = Len(x.s) =>
           (CHOOSE k \in 1..Len(names) : names[k] = x) <= j

ShortestSpelling(option_schema) ==
  IF option_schema.name.k = "str" THEN option_schema.name
  ELSE ShortestOf(option_schema.name.t)

\* n times the characters of a spelling
RECURSIVE Times(_, _)
Times(chars, n) == IF n = 0 THEN <<>> ELSE chars \o Times(chars, n - 1)

RECURSIVE NoLeadingDashes(_)
NoLeadingDashes(chars) ==
  IF chars # <<>> /\ chars[1] = "-" THEN NoLeadingDashes(Tail(chars)) ELSE chars

\* What a counting option with the count n has to emit.
CountExpected(option_schema, n) ==
  LET spelling == ShortestSpelling(option_schema)
  IN IF SubSeq(spelling.s, 1, 2) = <<"-", "-">>
     THEN [j \in 1..n |-> spelling]
     ELSE <<PyStr(<<"-">> \o Times(NoLeadingDashes(spelling.s), n))>>

\* C7: a single-occurrence counting option that is not suppressed, with an
\* integer n >= 1 as its value, emits its shortest spelling: n tokens of it
\* when it starts with "--", else the one token "-" and n times its letters;
\* the count is no token.
C7_CountingSpelling ==
  Returned_to_cli_args =>
    \A i \in 1..Len(data.options) :
       LET option == data.options[i]
       IN (/\ option.option_schema.counting
           /\ ~option.option_schema.multiple
           /\ Len(SubValues(option)) = 1
           /\ SubValues(option)[1].k = "int"
           /\ SubValues(option)[1].n >= 1
           /\ ~Suppressed(option))
          => /\ OptionEmits(i, CountExpected(option.option_schema,
                                             SubValues(option)[1].n))
             /\ SpelledBy(ret.args, option.option_schema)
                  = CountExpected(option.option_schema, SubValues(option)[1].n)

\* A state of C7's case: the count 3 of --vb/-v gives the token -vvv.
C7_Vvv ==
  /\ Returned_to_cli_args
  /\ \E i \in 1..Len(data.options) :
       /\ data.options[i].option_schema = OptVerbose
       /\ data.options[i].value = T1(PyInt(3))
  /\ SpelledBy(ret.args, OptVerbose) = <<PyStr(<<"-", "v", "v", "v">>)>>

(***************************************************************************)
(* The order of the tokens.                                                *)
(***************************************************************************)
\* The tokens of the single-occurrence options of a list, in list order.
RECURSIVE SingleTokens(_)
SingleTokens(options) ==
  IF options = <<>> THEN <<>>
  ELSE (IF Head(options).option_schema.multiple THEN <<>>
        ELSE SingleOptionTokens(Head(options)).args)
         \o SingleTokens(Tail(options))

\* The entries of a list that are not of the given schema.
RECURSIVE OthersThan(_, _)
OthersThan(options, option_schema) ==
  IF options = <<>> THEN <<>>
  ELSE (IF Head(options).option_schema = option_schema THEN <<>>
        ELSE <<Head(options)>>)
         \o OthersThan(Tail(options), option_schema)

\* The tokens of the repeatable options of a list, all occurrences of an
\* option together, the options in the order of their first occurrences.
RECURSIVE GroupedTokens(_)
GroupedTokens(options) ==
  IF options = <<>> THEN <<>>
  ELSE LET option_schema == Head(options).option_schema
       IN IF ~option_schema.multiple THEN GroupedTokens(Tail(options))
          ELSE (IF RepeatableAtDefault([options |-> options], option_schema)
                   \/ NoneSupplied(Concat(TuplesOf(options, option_schema)))
                THEN <<>>
                ELSE Concat([j \in 1..Len(TuplesOf(options, option_schema)) |->
                       IF NoneSupplied(TuplesOf(options, option_schema)[j]) THEN <<>>
                       ELSE <<FirstSpelling(option_schema)>>
                              \o TuplesOf(options, option_schema)[j]]))
                 \o GroupedTokens(OthersThan(options, option_schema))

\* The tokens of the arguments of a list: their elements that are supplied.
RECURSIVE PositionalTokens(_)
PositionalTokens(arguments) ==
  IF arguments = <<>> THEN <<>>
  ELSE Supplied(Iter(Head(arguments).value)) \o PositionalTokens(Tail(arguments))

\* The tokens of a chain of command data, level by level.
RECURSIVE ChainTokens(_)
ChainTokens(cmd) ==
  <<PyStr(cmd.name)>> \o SingleTokens(cmd.options) \o GroupedTokens(cmd.options)
    \o PositionalTokens(cmd.arguments)
    \o (IF cmd.subcommand = <<>> THEN <<>> ELSE ChainTokens(cmd.subcommand[1]))

\* The place of the name of the subcommand among the tokens of a command
\* that has one: the first token that is the name, after the name of the
\* command itself.
SubcommandAt(args, cmd) ==
  CHOOSE p \in 2..Len(args) :
    /\ args[p] = PyStr(cmd.subcommand[1].name)
    /\ \A q \in 2..(p - 1) : args[q] # PyStr(cmd.subcommand[1].name)

\* C8: to_cli_args(include_root_command=True) is, level by level from the
\* root to the leaf, the name of the command, the tokens of its
\* single-occurrence options in list order, those of its repeatable options
\* option by option, those of its arguments in list order, then the tokens
\* of its subcommand; no token of the parent comes after the name of the
\* subcommand.
C8_LevelOrder ==
  (Returned_to_cli_args /\ ret.include_root) =>
    /\ ret.args = ChainTokens(data)
    /\ data.subcommand # <<>> =>
         /\ \E p \in 2..Len(ret.args) : ret.args[p] = PyStr(data.subcommand[1].name)
         /\ SubSeq(ret.args, 1, SubcommandAt(ret.args, data) - 1)
              = to_cli_args([data EXCEPT !.subcommand = <<>>], TRUE).args
         /\ \A i \in 1..Len(data.options) :
              ~Mentioned(SubSeq(ret.args, SubcommandAt(ret.args, data), Len(ret.args)),
                         data.options[i].option_schema)

\* A state of C8's case: a single-occurrence option listed after a
\* repeatable one, an argument and a subcommand with an option of its own;
\* the tokens are in the order name, single-occurrence option, repeatable
\* option, argument, subcommand.
C8_AllParts ==
  /\ Returned_to_cli_args /\ ret.include_root
  /\ schema.options = <<OptPath, OptAll>>
  /\ ret.args = <<PyStr(RootName),
                  PyStr(<<"-", "-", "n", "o", "t", "-", "a", "l", "l">>),
                  PyStr(<<"-", "p">>), S1("a"), S1("7"),
                  PyStr(SubName), PyStr(<<"-", "-", "s", "o">>), PyBool(TRUE)>>

\* A state of C8's case with the occurrences of two repeatable options
\* interleaved in the list: the two occurrences of -p come together.
C8_Grouped ==
  /\ Returned_to_cli_args /\ ret.include_root
  /\ ret.args = <<PyStr(RootName), PyStr(<<"-", "p">>), S1("a"),
                  PyStr(<<"-", "p">>), S1("b"),
                  PyStr(<<"-", "-", "p", "t">>), S1("a"), VNS, S1("7")>>

\* The names of the subcommands below a command, from the top down.
RECURSIVE SubcommandNames(_)
SubcommandNames(cmd) ==
  IF cmd.subcommand = <<>> THEN <<>>
  ELSE <<PyStr(cmd.subcommand[1].name)>> \o SubcommandNames(cmd.subcommand[1])

C10_StringOfArgs ==
  Returned_to_cli_string =>
    LET args == to_cli_args(data, ret.include_root).args
        words == Words(ret.text)
    IN /\ Len(words) = Len(args)
       /\ ret.text = JoinChars(<<" ">>, words)
       /\ \A i \in 1..Len(args) :
            IF args[i] = ValueNotSupplied THEN words[i] = Placeholder
            ELSE /\ words[i] # Placeholder
                 /\ Unquote(words[i], "") = ToStr(args[i])

\* A state of C10's case: a sentinel, a value with a blank, a value with a
\* quote and the value ??? in one string.
C10_QuotedAndPlaceholder ==
  /\ Returned_to_cli_string
  /\ Words(ret.text) =
       <<<<"-", "-", "p", "t">>, <<"a">>, Placeholder,
         <<"'", "a", " ", "b", "'">>,
         <<"'", "i", "t", "'", "\"", "'", "\"", "'", "s", "'">>,
         <<"'", "?", "?", "?", "'">>>>

\* What process_cli_option has to return for a raw value, as a list of
\* tuples.
Wrapped(item) == IF item.k = "tuple" THEN item ELSE PyTuple(<<item>>)

NormalisedExpected(value) ==
  IF value = PyNone THEN PyList(<<>>)
  ELSE IF value.k = "tuple" THEN PyList(<<value>>)
  ELSE IF value.k = "list" THEN PyList([i \in 1..Len(value.t) |-> Wrapped(value.t[i])])
  ELSE PyList(<<PyTuple(<<value>>)>>)

\* C11: process_cli_option returns the empty list for None, [raw] for a
\* tuple, for a list its elements in order with every element that is no
\* tuple made a 1-tuple, and [(raw,)] for any other value; the result is a
\* list of tuples, and it is empty for None and for the empty list only.
C11_Normalised ==
  normalised # PyNone =>
    /\ normalised = NormalisedExpected(raw)
    /\ normalised.k = "list"
    /\ \A i \in 1..Len(normalised.t) : normalised.t[i].k = "tuple"
    /\ normalised.t = <<>> <=> raw \in {PyNone, PyList(<<>>)}

\* C11 as stated: only None is normalised to the empty list.
C11_OnlyNoneEmpty ==
  (normalised # PyNone /\ normalised.t = <<>>) => raw = PyNone

\* A state of C11's case: a list of a scalar and a pair, normalised to a
\* 1-tuple and the pair.
C11_ListOfScalarAndPair ==
  /\ raw = PyList(<<PyBool(FALSE), T2(PyInt(0), S1("a"))>>)
  /\ normalised = PyList(<<T1(PyBool(FALSE)), T2(PyInt(0), S1("a"))>>)

(***************************************************************************)
(* Exceptions.                                                             *)
(***************************************************************************)
\* The options of the data are value-bearing ones of a single occurrence:
\* no flag, no counting option, no repeatable option.
PlainOptions(cmd) ==
  \A i \in 1..Len(cmd.options) :
     /\ ~cmd.options[i].option_schema.counting
     /\ ~cmd.options[i].option_schema.is_flag
     /\ ~cmd.options[i].option_schema.multiple

\* C12: to_cli_args and to_cli_string finish without raising, also for a
\* single-occurrence option whose supplied tuple or default tuple mixes the
\* kinds of its elements or holds sentinels.
C12_NeverRaises ==
  (ret.op \in {"to_cli_args", "to_cli_string"} /\ PlainOptions(data)) => ~ret.raised

\* A state of C12's case: to_cli_args called on the (string, boolean) pair
\* ("a", True) of --sb.
C12_StringWithBoolean ==
  /\ ret.op = "to_cli_args"
  /\ data.options = UserOptions(OptStrBool, <<T2(S1("a"), PyBool(TRUE))>>)

\* The option is a counting one of a single occurrence with one sub-value,
\* and it is not suppressed.
CountingCase(option) ==
  /\ option.option_schema.counting
  /\ ~option.option_schema.multiple
  /\ Len(SubValues(option)) = 1
  /\ ~Suppressed(option)

\* C13: for a counting option that is not suppressed and whose value is no
\* integer, to_cli_args does not raise and emits what it emits for the
\* count 1.
C13_MalformedCountIsOne ==
  ret.op = "to_cli_args" =>
    \A i \in 1..Len(data.options) :
       (CountingCase(data.options[i]) /\ IntOf(SubValues(data.options[i])[1]).raised)
         => /\ ~ret.raised
            /\ OptionEmits(i, CountExpected(data.options[i].option_schema, 1))

\* A state of C13's case: to_cli_args called with the count "abc" of --vb/-v.
C13_CountAbc ==
  /\ ret.op = "to_cli_args"
  /\ data.options = UserOptions(OptVerbose, <<T1(Abc)>>)

\* C14: a counting option that is not suppressed is repeated at least once
\* and at most 5 times, whatever integer is its value.
C14_RepetitionsClamped ==
  ret.op = "to_cli_args" =>
    \A i \in 1..Len(data.options) :
       (CountingCase(data.options[i]) /\ ~IntOf(SubValues(data.options[i])[1]).raised)
         => /\ ~ret.raised
            /\ \E n \in 1..5 :
                  OptionEmits(i, CountExpected(data.options[i].option_schema, n))

\* A state of C14's case: the count -1 of --vb/-v gives the token "-".
C14_MinusOne ==
  /\ Returned_to_cli_args
  /\ data.options = UserOptions(OptVerbose, <<T1(PyInt(0 - 1))>>)
  /\ ret.args = <<PyStr(<<"-">>)>>

(***************************************************************************)
(* Required parameters without a value.                                    *)
(***************************************************************************)
WithoutArgument(cmd, j) ==
  [cmd EXCEPT !.arguments =
     SubSeq(cmd.arguments, 1, j - 1) \o SubSeq(cmd.arguments, j + 1, Len(cmd.arguments))]

\* What the last call returns for the command data cmd.
SameCall(cmd) ==
  IF ret.op = "to_cli_args"
  THEN LET r == to_cli_args(cmd, ret.include_root)
       IN ret.raised = r.raised /\ ret.args = r.args
  ELSE LET r == to_cli_string(cmd, ret.include_root)
       IN ret.raised = r.raised /\ ret.text = r.text

\* Entry i of the options is of a required option and none of its
\* sub-values is supplied.
RequiredOptionMissing(cmd, i) ==
  /\ cmd.options[i].option_schema.required
  /\ NoneSupplied(SubValues(cmd.options[i]))

RequiredArgumentMissing(cmd, j) ==
  /\ cmd.arguments[j].argument_schema.required
  /\ NoneSupplied(Iter(cmd.arguments[j].value))

SomeRequiredMissing(cmd) ==
  \/ \E i \in 1..Len(cmd.options) : RequiredOptionMissing(cmd, i)
  \/ \E j \in 1..Len(cmd.arguments) : RequiredArgumentMissing(cmd, j)

RECURSIVE NonSentinels(_)
NonSentinels(elements) ==
  IF elements = <<>> THEN <<>>
  ELSE (IF Head(elements) = ValueNotSupplied THEN <<>> ELSE <<Head(elements)>>)
         \o NonSentinels(Tail(elements))

\* The non-sentinel elements of the values of a list of arguments.
RECURSIVE ArgumentElements(_)
ArgumentElements(arguments) ==
  IF arguments = <<>> THEN <<>>
  ELSE NonSentinels(Iter(Head(arguments).value)) \o ArgumentElements(Tail(arguments))

\* The value of the argument is the text of its default.
AtDefault(argument) ==
  /\ argument.argument_schema.default # <<>>
  /\ MapStr(Iter(argument.value)) = MapStr(Flatten(argument.argument_schema.default))

\* C16: to_cli_args emits, for the arguments in list order, the elements of
\* each value that are not the sentinel, in order and with no flag token,
\* and nothing for a sentinel; an argument whose value is its default is
\* emitted as any other.
C16_ArgumentsEmitted ==
  Returned_to_cli_args =>
    /\ \A j \in 1..Len(data.arguments) :
          InsertedAt(to_cli_args(WithoutArgument(data, j), ret.include_root).args,
                     NonSentinels(Iter(data.arguments[j].value)), ret.args)
    /\ InsertedAt(to_cli_args([data EXCEPT !.arguments = <<>>], ret.include_root).args,
                  ArgumentElements(data.arguments), ret.args)

\* A state of C16's case: arg1 with the text of its default 5, emitted.
C16_DefaultEmitted ==
  /\ Returned_to_cli_args
  /\ data.arguments = ArgFive
  /\ AtDefault(data.arguments[1])
  /\ data.options = <<>>
  /\ ret.args = <<S1("5")>>

\* A state of C16's case: the sentinel of the pair ("x", not supplied) of
\* xy gives no token.
C16_SentinelDropped ==
  /\ Returned_to_cli_args
  /\ Len(data.arguments) = 2
  /\ data.arguments[2].value = T2(S1("x"), VNS)
  /\ ret.args = <<S1("x")>>

(***************************************************************************)
(* Value-bearing options of a single occurrence.                           *)
(***************************************************************************)
\* The number of subcommands below a command.
RECURSIVE Depth(_)
Depth(cmd) == IF cmd.subcommand = <<>> THEN 0 ELSE 1 + Depth(cmd.subcommand[1])

\* The command d levels below cmd.
RECURSIVE LevelAt(_, _)
LevelAt(cmd, d) == IF d = 0 THEN cmd ELSE LevelAt(cmd.subcommand[1], d - 1)

\* cmd without entry i of the options of the command d levels below it.
RECURSIVE WithoutOptionAt(_, _, _)
WithoutOptionAt(cmd, d, i) ==
  IF d = 0 THEN WithoutOption(cmd, i)
  ELSE [cmd EXCEPT !.subcommand = <<WithoutOptionAt(cmd.subcommand[1], d - 1, i)>>]

\* The option carries values: it is no flag, no counting option and not
\* repeatable.
ValueBearing(option) ==
  /\ ~option.option_schema.is_flag
  /\ ~option.option_schema.counting
  /\ ~option.option_schema.multiple

RepeatableOmitted(tuples, option_schema) ==
  \/ SameStrings(NonSentinels(Concat(tuples)),
                 NonSentinels(Flatten(option_schema.default)))
  \/ NonSentinels(Concat(tuples)) = <<>>

\* The tokens of the occurrences of a repeatable option that is not
\* omitted.
OccurrenceTokens(tuples, option_schema) ==
  Concat([j \in 1..Len(tuples) |->
            IF NoneSupplied(tuples[j]) THEN <<>>
            ELSE <<FirstSpelling(option_schema)>> \o tuples[j]])

\* C18: a repeatable option is omitted from to_cli_args exactly when
\* RepeatableOmitted holds of its occurrences; otherwise each occurrence
\* that has a supplied sub-value is emitted, in occurrence order, as the
\* first spelling of the option followed by all elements of its tuple.
C18_RepeatableOption ==
  Returned_to_cli_args =>
    \A i \in 1..Len(schema.options) :
       LET option_schema == schema.options[i]
           tuples == TuplesOf(data.options, option_schema)
           others == to_cli_args([data EXCEPT !.options =
                                    OthersThan(data.options, option_schema)],
                                 ret.include_root).args
       IN (option_schema.multiple /\ tuples # <<>>)
          => /\ RepeatableOmitted(tuples, option_schema)
                  <=> Count(FirstSpelling(option_schema), ret.args) = 0
             /\ RepeatableOmitted(tuples, option_schema) => ret.args = others
             /\ ~RepeatableOmitted(tuples, option_schema)
                  => InsertedAt(others, OccurrenceTokens(tuples, option_schema),
                                ret.args)

\* A state of C18's case: the default pair ("a", "b") of --pt given as the
\* two occurrences ("a", not supplied) and ("b", not supplied), and no
\* token emitted.
C18_Regrouped ==
  /\ Returned_to_cli_args
  /\ data.options = UserOptions(OptPoint, <<T2(S1("a"), VNS), T2(S1("b"), VNS)>>)
  /\ data.arguments = <<>>
  /\ ret.args = <<>>

\* A state of C18's case: of the occurrences (not supplied, not supplied)
\* and ("b", "a") of --pt, the second is emitted.
C18_SecondOccurrence ==
  /\ Returned_to_cli_args
  /\ data.options = UserOptions(OptPoint, <<T2(VNS, VNS), T2(S1("b"), VNS)>>)
  /\ data.arguments = <<>>
  /\ ret.args = <<PyStr(<<"-", "-", "p", "t">>), S1("b"), VNS>>

(***************************************************************************)
(* fill_defaults: the entries it adds.                                     *)
(***************************************************************************)
\* The entries of a list that have the name.
Named(entries, name) == \E i \in 1..Len(entries) : entries[i].name = name

\* One entry per tuple of the default of a parameter, the tuple its value.
EntriesOf(param_schema, reference) ==
  [k \in 1..Len(param_schema.default) |->
     [x \in {"name", "value", reference} |->
        CASE x = "name" -> param_schema.name
          [] x = "value" -> PyTuple(param_schema.default[k])
          [] OTHER -> param_schema]]

\* The entries to add for the parameters of a schema that have no entry
\* among those given, in schema order.
RECURSIVE NewEntries(_, _, _)
NewEntries(param_schemas, entries, reference) ==
  IF param_schemas = <<>> THEN <<>>
  ELSE (IF Named(entries, Head(param_schemas).name) THEN <<>>
        ELSE EntriesOf(Head(param_schemas), reference))
         \o NewEntries(Tail(param_schemas), entries, reference)

FilledOptions ==
  data.options = given.options \o NewEntries(schema.options, given.options, "option_schema")

FilledArguments ==
  data.arguments
    = given.arguments \o NewEntries(schema.arguments, given.arguments, "argument_schema")

\* C19: after fill_defaults the options and the arguments of the command
\* data are those it had, unchanged, followed in schema order by one entry
\* per default tuple of every option and of every argument that had no
\* entry, the tuple being the value of the entry.
C19_OneEntryPerTuple ==
  (fills = 1 /\ ret.op = "fill_defaults") => (FilledOptions /\ FilledArguments)

\* The options half of C19.
C19_OptionsFilled ==
  (fills = 1 /\ ret.op = "fill_defaults") => FilledOptions

\* A state of C19's case: fill_defaults on command data without arguments
\* has added the entry of arg1, its value the list [(5,)], and one of xy,
\* its value the empty list.
C19_ListAsValue ==
  /\ fills = 1
  /\ ret.op = "fill_defaults"
  /\ given.arguments = <<>>
  /\ Len(data.arguments) = 2
  /\ data.arguments[1].value = PyList(<<T1(PyInt(5))>>)
  /\ data.arguments[2].value = PyList(<<>>)

(***************************************************************************)
(* fill_defaults: the subcommand.                                          *)
(***************************************************************************)
\* The subcommands of a schema that have the name.
Matching(command_schema, name) ==
  {k \in 1..Len(command_schema.subcommands) : command_schema.subcommands[k].name = name}

\* The level is filled: the options it had, then those of the defaults;
\* the arguments it had, then an entry for every argument that had none.
LevelFilled(before, after, command_schema) ==
  /\ after.name = before.name
  /\ after.options
       = before.options \o NewEntries(command_schema.options, before.options, "option_schema")
  /\ Len(after.arguments) >= Len(before.arguments)
  /\ SubSeq(after.arguments, 1, Len(before.arguments)) = before.arguments
  /\ \A j \in 1..Len(command_schema.arguments) :
        Named(after.arguments, command_schema.arguments[j].name)

\* The chain of commands is filled from the schema: every level down to
\* the first subcommand whose name the schema does not have, and that
\* subcommand is as it was.
RECURSIVE ChainFilled(_, _, _)
ChainFilled(before, after, command_schema) ==
  /\ LevelFilled(before, after, command_schema)
  /\ IF before.subcommand = <<>> THEN after.subcommand = <<>>
     ELSE IF Matching(command_schema, before.subcommand[1].name) = {}
     THEN after.subcommand = before.subcommand
     ELSE /\ after.subcommand # <<>>
          /\ \E k \in Matching(command_schema, before.subcommand[1].name) :
                ChainFilled(before.subcommand[1], after.subcommand[1],
                            command_schema.subcommands[k])

\* C20: fill_defaults leaves a subcommand whose name is not one of the
\* subcommands of the schema, and everything below it, as it was, and
\* fills the level above it; a subcommand whose name is one of them is
\* filled from the schema of that name, and so on down the chain.
C20_SubcommandFilled ==
  (fills = 1 /\ ret.op = "fill_defaults") => ChainFilled(given, data, schema)

\* A state of C20's case: the subcommand zz, which the schema does not
\* have, is as it was, and the root has got new entries.
C20_UnknownSubcommand ==
  /\ fills = 1
  /\ ret.op = "fill_defaults"
  /\ given.subcommand # <<>>
  /\ given.subcommand[1].name = OtherName
  /\ data.subcommand = given.subcommand
  /\ Len(data.options) > Len(given.options)
  /\ Len(data.arguments) > Len(given.arguments)

\* A state of C20's case: the subcommand sub, given without options, has
\* got the default False of its option --so.
C20_KnownSubcommand ==
  /\ fills = 1
  /\ ret.op = "fill_defaults"
  /\ given.subcommand # <<>>
  /\ given.subcommand[1].name = SubName
  /\ given.subcommand[1].options = <<>>
  /\ data.subcommand[1].options = UserOptions(OptSub, <<T1(PyBool(FALSE))>>)

(***************************************************************************)
(* Parameter schemas.                                                      *)
(***************************************************************************)
\* The branch of the reconstructor an option of this schema takes: the
\* test option.option_schema.multiple of _to_cli_args.
RepeatablePath(option_schema) == option_schema.multiple

C21_OnlyMultiValue ==
  [][PostInit => /\ param'.multi_value = param.multi_value
                 /\ ~param.multi_value => param'.multiple = param.multiple]_vars

RECURSIVE DepthOf(_)
DepthOf(n) == IF schemas[n].parent = 0 THEN 0 ELSE 1 + DepthOf(schemas[n].parent)

\* The path returned for n: from a schema without parent down to n, every
\* element the parent of the next.
PathTo(n, path) ==
  /\ path # <<>>
  /\ schemas[path[1]].parent = 0
  /\ path[Len(path)] = n
  /\ \A k \in 1..(Len(path) - 1) : schemas[path[k + 1]].parent = path[k]
  /\ Len(path) = DepthOf(n) + 1

\* C22: in a tree with acyclic parent links n.path_from_root terminates,
\* and it returns a list that is not empty, starts with a schema whose
\* parent is None, ends with n, has every element the parent of the next,
\* and is as long as the depth of n plus one.
C22_PathFromRoot ==
  /\ [](walk.stage = "returned" => PathTo(walk.self, walk.result))
  /\ [](walk.stage = "walking" => Len(walk.path) <= DepthOf(walk.self) + 1)
  /\ (walk.stage = "walking") ~> (walk.stage = "returned")

\* A state of C22's case: the path of a schema two levels below the root,
\* returned.
C22_TwoLevelsDown ==
  /\ walk.stage = "returned"
  /\ DepthOf(walk.self) = 2
  /\ Len(walk.result) = 3
  /\ walk.result[3] = walk.self

(***************************************************************************)
(* Introspection.                                                          *)
(***************************************************************************)
\* What the declaration shows of a command: the options that are not
\* hidden, all arguments, and the subcommands that are neither hidden nor
\* the command that launches the form.
RECURSIVE Shown(_, _)
Shown(cmd, name) ==
  [name |-> name,
   options |-> SelectSeq(cmd.params, LAMBDA x : x.kind = "option" /\ ~x.hidden /\ ~x.tui),
   arguments |-> SelectSeq(cmd.params, LAMBDA x : x.kind = "argument" /\ ~x.hidden),
   subcommands |-> LET kept == SelectSeq(cmd.commands, LAMBDA c : ~c.hidden /\ ~c.launcher)
                   IN [k \in 1..Len(kept) |-> Shown(kept[k], kept[k].name)]]

\* The schema at a place with the schemas below it, names for parameters.
RECURSIVE Unfolded(_)
Unfolded(id) ==
  [name |-> schemas[id].name,
   options |-> schemas[id].options,
   arguments |-> schemas[id].arguments,
   subcommands |-> [k \in 1..Len(schemas[id].subcommands) |->
                      Unfolded(schemas[id].subcommands[k].schema)]]

\* The declaration with parameters by name.
RECURSIVE ShownNames(_)
ShownNames(shown) ==
  [name |-> shown.name,
   options |-> [k \in 1..Len(shown.options) |-> shown.options[k].name],
   arguments |-> [k \in 1..Len(shown.arguments) |-> shown.arguments[k].name],
   subcommands |-> [k \in 1..Len(shown.subcommands) |-> ShownNames(shown.subcommands[k])]]

\* Every registered subcommand has the schema it is registered with as its
\* parent and is registered under its name; the schema of the mapping has
\* no parent.
ParentsSet ==
  /\ \A id \in 1..Len(schemas) :
       \A k \in 1..Len(schemas[id].subcommands) :
         /\ schemas[schemas[id].subcommands[k].schema].parent = id
         /\ schemas[schemas[id].subcommands[k].schema].name = schemas[id].subcommands[k].name
  /\ \A k \in 1..Len(top.data) : schemas[top.data[k].schema].parent = 0

\* The name introspection gives the application.
TopName == IF declared.adapter = "click" /\ ~declared.app.group THEN declared.app.name ELSE "root"

\* C23: the tree an adapter returns holds, at every depth, no hidden or
\* suppressed option, no hidden subcommand and not the command that
\* launches the form, and holds every other declared option, argument and
\* subcommand, each subcommand with the enclosing schema as parent.
C23_TreeAsDeclared ==
  top.stage # "idle" =>
    /\ top.stage = "returned"
    /\ Len(top.data) = 1
    /\ Unfolded(top.data[1].schema) = ShownNames(Shown(declared.app, TopName))
    /\ ParentsSet

\* A state of C23's case: the argparse adapter returned the tree of a group
\* that declares a hidden option next to a command it keeps.
C23_ArgparseTree ==
  /\ declared.adapter = "argparse"
  /\ top.stage = "returned"
  /\ \E k \in 1..Len(declared.app.commands) :
       /\ declared.app.commands[k].hidden
       /\ declared.app.commands[k].name = "run"
  /\ Len(schemas) = 1

\* A state where C23 holds of the click adapter: no option is shown.
C23_ClickWithoutOption ==
  /\ declared.adapter = "click"
  /\ top.stage = "returned"
  /\ Len(schemas) >= 2

(***************************************************************************)
(* Trogon.from_schemas.                                                    *)
(***************************************************************************)
\* The last of the arguments after the first that has the given name.
LastNamed(args, name) ==
  args[CHOOSE k \in 2..Len(args) :
         /\ schemas[args[k]].name = name
         /\ \A later \in (k + 1)..Len(args) : schemas[args[later]].name # name]

\* C27: from_schemas(root, s1, ..., sk) gives every si the parent root and
\* registers it with the root under its name, a later schema of the same
\* name in place of an earlier one, so that si.path_from_root is
\* [root, si]; the mapping holds the root alone under its name; without a
\* schema ValueError is raised and nothing is built.
C27_FromSchemas ==
  LET args == declared.app IN
  /\ top.stage = "raised" =>
       /\ args = <<>>
       /\ \A id \in 1..Len(schemas) :
            schemas[id].parent = 0 /\ schemas[id].subcommands = <<>>
  /\ top.stage = "returned" =>
       /\ args # <<>>
       /\ top.data = <<[name |-> schemas[args[1]].name, schema |-> args[1]]>>
       /\ \A i \in 2..Len(args) :
            /\ schemas[args[i]].parent = args[1]
            /\ \E k \in 1..Len(schemas[args[1]].subcommands) :
                 /\ schemas[args[1]].subcommands[k].name = schemas[args[i]].name
                 /\ schemas[args[1]].subcommands[k].schema =
                      LastNamed(args, schemas[args[i]].name)
       /\ \A k, l \in 1..Len(schemas[args[1]].subcommands) :
            /\ \E i \in 2..Len(args) : schemas[args[1]].subcommands[k].schema = args[i]
            /\ k # l => schemas[args[1]].subcommands[k].name #
                          schemas[args[1]].subcommands[l].name
       /\ (walk.stage = "returned" /\ \E i \in 2..Len(args) : walk.self = args[i]) =>
            walk.result = <<args[1], walk.self>>

\* A state of C27's case: two schemas of one name were registered with a
\* root, and the path of the first of them was read.
C27_SameNameTwice ==
  /\ top.stage = "returned"
  /\ Len(declared.app) = 3
  /\ schemas[declared.app[2]].name = schemas[declared.app[3]].name
  /\ Len(schemas[declared.app[1]].subcommands) = 1
  /\ walk.stage = "returned"
  /\ walk.self = declared.app[2]

\* A state of C27's case: from_schemas was called without a schema.
C27_NoSchema == top.stage = "raised" /\ declared.adapter = "schemas"

(***************************************************************************)
(* What the reconstruction and fill_defaults leave alone.                  *)
(***************************************************************************)
\* The calls that reconstruct.
Reconstructs(op) == op \in {"to_cli_args", "to_cli_string"}

ControlValues ==
  IF Len(controls.widgets) = 1 /\ controls.widgets[1].kind = "MultipleChoice"
  THEN controls.widgets[1].value.t
  ELSE [i \in 1..Len(controls.widgets) |-> get_form_control_value(controls.widgets[i])]

\* The size of a tuple for nargs.
TupleSize(nargs) == IF nargs = 0 - 1 THEN 1 ELSE nargs

\* What get_values returned is what it returns for the controls as they are.
GotNow ==
  /\ controls.got.stage = "returned"
  /\ controls.got.values = get_values(controls.widgets, controls.schema)

\* C28: get_values groups the values of the controls, in DOM order, into
\* tuples of exactly nargs elements (one element when nargs is -1) whose
\* concatenation is the list of the control values.
C28_TuplesOfNargs ==
  GotNow =>
    /\ \A k \in 1..Len(controls.got.values) :
         Len(controls.got.values[k]) = TupleSize(controls.schema.nargs)
    /\ Concat(controls.got.values) = ControlValues

\* A state of C28's case: two widget groups of a click.Tuple were read as
\* two tuples.
C28_TwoGroups ==
  /\ GotNow
  /\ controls.schema.type.kind = "Tuple"
  /\ Len(controls.got.values) = 2
  /\ Len(controls.got.values[2]) = 2

(***************************************************************************)
(* CommandForm._form_changed.                                              *)
(***************************************************************************)
\* The command data from a place on, along the subcommand links.
RECURSIVE ChainIn(_, _)
ChainIn(objects, id) ==
  IF id = 0 THEN <<>> ELSE <<id>> \o ChainIn(objects, objects[id].subcommand)

ChainFrom(id) == ChainIn(form.objects, id)

\* The chain of a posted message is as C26 says for the command selected
\* when it was posted.
PostedChain(message) ==
  LET chain == ChainFrom(message.command_data)
      node(k) == form.objects[chain[k]]
  IN /\ PathTo(message.command_schema, [k \in 1..Len(chain) |-> node(k).command_schema])
     /\ \A k \in 1..Len(chain) :
          /\ node(k).name = schemas[node(k).command_schema].name
          /\ node(k).name # "_"
          /\ node(k).parent = IF k = 1 THEN 0 ELSE chain[k - 1]
     /\ node(Len(chain)).subcommand = 0

\* C26: the command data posted after a form change is a chain with one
\* node for every schema on the path from the root to the selected
\* command, in that order, each with the name and the schema of its
\* command; the root has no parent, every other node has the node before
\* it as parent, the leaf has no subcommand, and the sentinel "_" is not on
\* the chain.  Every change builds new objects and leaves those built
\* before as they were.
C26_PostedChain ==
  /\ [](\A m \in 1..Len(form.posted) : PostedChain(form.posted[m]))
  /\ [][/\ \A id \in 1..Len(form.objects) : form'.objects[id] = form.objects[id]
        /\ Len(form'.posted) > Len(form.posted) =>
             LET chain == ChainIn(form'.objects,
                                  form'.posted[Len(form'.posted)].command_data)
             IN \A k \in 1..Len(chain) : chain[k] > Len(form.objects)]_vars

\* A state of C26's case: the form of a command two levels below the root
\* posted its command data a second time, with a value supplied.
C26_SecondPost ==
  /\ Len(form.posted) = 2
  /\ Len(ChainFrom(form.posted[2].command_data)) = 3
  /\ form.posted[1].command_schema = form.posted[2].command_schema
  /\ form.objects[form.posted[2].command_data].options[1].value = <<PyStr(<<"a">>)>>

(***************************************************************************)
(* Close & Run and the end of Trogon.run.                                  *)
(***************************************************************************)
\* C25: the final command is executed at most once, only after the UI
\* event loop has ended, and only if execute_on_exit was set by Close & Run
\* or by the exec button; when the UI quits in another way no command is
\* executed.
C25_ExecutedOnceWhenAsked ==
  /\ Len(app.executed) <= 1
  /\ app.executed # <<>> => app.stage = "done" /\ app.execute_on_exit
  /\ app.execute_on_exit <=> app.asked \in {"close_and_run", "button"}
  /\ app.stage \in {"ui", "exiting", "exited"} => app.executed = <<>>

\* A state of C25's case: Close & Run was handled, the UI ended and the
\* command was executed.
C25_Executed ==
  /\ app.stage = "done"
  /\ app.asked = "close_and_run"
  /\ Len(app.executed) = 1

\* A state of C25's case: the UI was quit in another way after the form
\* reported a command line that is not empty, and run has ended.
C25_QuitWithoutRun ==
  /\ app.stage = "done"
  /\ app.asked = "no"
  /\ app.post_run_command # <<>>

\* C29: whenever Close & Run is handled, the arguments for the process,
\* App.post_run_command, are to_cli_args(include_root_command=False) of the
\* command data of the screen at that moment, from which the announced
\* command line is made.
C29_SameFormState ==
  app.asked = "close_and_run" =>
    app.asked_with.post_run_command =
      to_cli_args(app.asked_with.command_data, FALSE).args

\* A state where Close & Run was handled with both handlers of the last
\* message done.
C29_HandledInStep ==
  /\ app.asked = "close_and_run"
  /\ app.posts = 2
  /\ app.app_queue = <<>>
  /\ app.screen_queue = <<>>
  /\ app.executed = <<app.post_run_command>>

\* C30: if Close & Run is triggered after the form has reported its state,
\* then once the UI has ended the built command is executed, whatever the
\* form state, the empty argument vector of a command left at its defaults
\* included.
C30_BuiltCommandExecuted ==
  (app.stage = "done" /\ app.asked = "close_and_run") =>
     app.executed = <<app.post_run_command>>

\* A state of C30's case: Close & Run with an option set, executed.
C30_ExecutedWithOption ==
  /\ app.stage = "done"
  /\ app.asked = "close_and_run"
  /\ Len(app.post_run_command) = 2
  /\ app.executed = <<app.post_run_command>>

====
